---- MODULE Spec2Model ----
(***************************************************************************)
(* Flood wave detector: peak detection (GraphPreparation.find_vertices),   *)
(* edge construction (GraphPreparation.find_edges), the run() loop over    *)
(* the sub-periods cut by the station existence intervals, the graph       *)
(* builder, the selections and the wave extraction.                        *)
(*                                                                         *)
(* Calendar days are integers, station ids are integers (the reg numbers), *)
(* a JSON file holding a dict is a function whose DOMAIN is the key set.   *)
(* A dict keyed by date is always written in ascending date order by the   *)
(* code (peaks are found in index order, sub-periods are processed in      *)
(* chronological order), so a list of dates read back from such a dict is  *)
(* the ascending sequence of its keys.                                     *)
(***************************************************************************)
EXTENDS Integers, Sequences, FiniteSets, TLC

VARIABLES
    data,               \* FloodWaveData.data: station id -> (day -> level or NaN)
    delta,              \* self.centered_window_radius
    life,               \* existing_stations.json: id -> [start, end]
    backward_dict,      \* alpha, per station
    forward_dict,       \* beta, per station
    all_gauges,         \* the gauges given to the constructor (meta order)
    gauges,             \* self.gauges
    start_date,         \* self.start_date
    end_date,           \* self.end_date
    cut_dates,          \* run(): cut_dates
    idx,                \* run(): the loop index i
    pc,                 \* position in run()
    vertex_files,       \* find_vertices/<gauge>.json : id -> (day -> <<level, color>>)
    edge_files,         \* find_edges/<u>_<v>.json    : <<u,v>> -> (day -> seq of days)
    vertex_pairs_keys,  \* find_edges/vertex_pairs.json: its keys, in insertion order
    vertex_pairs,       \* find_edges/vertex_pairs.json: <<u,v>> -> (day -> seq of days)
    gauge_ts,           \* find_vertices: the array handed to get_local_peak_values, per gauge
    gauge_days,         \* find_vertices: the dates of gauge_data (after dropna), per gauge
    local_peak_values,  \* find_vertices: the flags get_local_peak_values returned, per gauge
    found,              \* history: what each find_vertices / find_edges call found, per sub-period
    tree_g,             \* GraphBuilder.tree_g
    path,               \* GraphBuilder.path
    all_paths,          \* GraphBuilder.all_paths
    wave_serial_number, \* GraphBuilder.wave_serial_number
    branches,           \* GraphBuilder.branches (LifoQueue): the top is the last element
    flood_wave,         \* GraphBuilder.flood_wave
    root_i,             \* build_graph: position in the three nested loops
    call,               \* create_flood_wave: the arguments of the running call
    build_files,        \* build_graph/<pair>/<date>: the trees written
    joined_graph,       \* GraphManipulation.create_directed_graph: joined_graph
    sel_call,           \* the last call on the joined graph: <<function, arguments>>
    sel_graph,          \* Selection.*: the graph returned
    final_pairs,        \* FloodWaveHandler.get_final_pairs, over all components
    flood_waves,        \* FloodWaveExtractor.flood_waves
    sel_value,          \* how the call ended: the value returned or the exception raised
    sel_view            \* TRUE when the graph returned is a view on the input graph

vars == <<data, delta, life, backward_dict, forward_dict, all_gauges, gauges,
          start_date, end_date, cut_dates, idx, pc, vertex_files, edge_files,
          vertex_pairs_keys, vertex_pairs, gauge_ts, gauge_days, local_peak_values,
          found, tree_g, path, all_paths, wave_serial_number, branches, flood_wave,
          root_i, call, build_files, joined_graph, sel_call, sel_graph, final_pairs,
          flood_waves, sel_value, sel_view>>

prepVars == <<data, delta, life, backward_dict, forward_dict, all_gauges, gauges,
              start_date, end_date, cut_dates, idx, vertex_files, edge_files,
              vertex_pairs_keys, vertex_pairs, gauge_ts, gauge_days, local_peak_values,
              found>>

builderVars == <<tree_g, path, all_paths, wave_serial_number, branches, flood_wave,
                 root_i, call, build_files, joined_graph>>

selVars == <<sel_call, sel_graph, final_pairs, flood_waves, sel_value, sel_view>>

----------------------------------------------------------------------------
(* Bounds of the peak-detection specification (one station, every series). *)
PeakMaxDay == 5
PeakMaxLevel == 2
PeakMaxDelta == 2

(* A missing sample (NaN in the data frame). *)
NaN == -1

(* Station ids of the metadata table. *)
NumStations == 3
StationIds == 1..NumStations

(* meta.river_km: not monotone in the station id. *)
river_kms == [g \in StationIds |-> IF g % 2 = 1 THEN 100 + g ELSE 100 - g]

(* level_groups_fontos.json: the level threshold of every station; station *)
(* 1 has a higher threshold than the others.                               *)
level_groups == [g \in StationIds |-> IF g = 1 THEN 2 ELSE 1]

----------------------------------------------------------------------------
(* Generic helpers: Python / pandas / numpy idioms.                        *)

EmptyDict == [k \in {} |-> 0]

(* dict.update: keys of b win, the other keys of a are kept. *)
DictUpdate(a, b) ==
    [k \in (DOMAIN a) \cup (DOMAIN b) |-> IF k \in DOMAIN b THEN b[k] ELSE a[k]]

(* The ascending sequence of a finite set of integers. *)
RECURSIVE SortedSeq(_)
SortedSeq(S) ==
    IF S = {} THEN <<>>
    ELSE LET m == CHOOSE x \in S : \A y \in S : x <= y
         IN  <<m>> \o SortedSeq(S \ {m})

(* list.sort on a list of dates (stable; equal dates are equal strings). *)
RECURSIVE SortList(_)
SortList(s) ==
    IF Len(s) = 0 THEN <<>>
    ELSE LET m == CHOOSE k \in 1..Len(s) : \A j \in 1..Len(s) : s[k] <= s[j]
         IN  <<s[m]>> \o SortList(SubSeq(s, 1, m - 1) \o SubSeq(s, m + 1, Len(s)))

SeqToSet(s) == {s[k] : k \in 1..Len(s)}

----------------------------------------------------------------------------
(* GraphPreparation.get_local_peak_values, as numpy computes it.           *)
(* Arrays are 1-based here: index k of the model is index k-1 of numpy.    *)

(* a variant of left_cond with a non-strict comparison *)
LeftCondNonStrict(ts, shift) ==
    [k \in 1..Len(ts) |-> IF k <= shift THEN FALSE ELSE ts[k] >= ts[k - shift]]

(* np.r_[[False] * shift, gauge_ts[shift:] > gauge_ts[:-shift]] *)
LeftCond(ts, shift) ==
    [k \in 1..Len(ts) |-> IF k <= shift THEN FALSE ELSE ts[k] > ts[k - shift]]

(* a variant of right_cond with a strict comparison *)
RightCondStrict(ts, shift) ==
    [k \in 1..Len(ts) |-> IF k > Len(ts) - shift THEN FALSE ELSE ts[k] > ts[k + shift]]

(* np.r_[gauge_ts[:-shift] >= gauge_ts[shift:], [False] * shift] *)
RightCond(ts, shift) ==
    [k \in 1..Len(ts) |-> IF k > Len(ts) - shift THEN FALSE ELSE ts[k] >= ts[k + shift]]

(* cond after the shifts 1..shift of the loop *)
RECURSIVE CondAfter(_, _)
CondAfter(ts, shift) ==
    IF shift = 0 THEN [k \in 1..Len(ts) |-> TRUE]
    ELSE LET prev == CondAfter(ts, shift - 1)
             l == LeftCond(ts, shift)
             r == RightCond(ts, shift)
         IN  [k \in 1..Len(ts) |-> l[k] /\ r[k] /\ prev[k]]

(* result[k].is_peak *)
get_local_peak_values(ts, radius) == CondAfter(ts, radius)

----------------------------------------------------------------------------
(* GraphPreparation.find_vertices, for one gauge.                          *)

(* self.data.data[[gauge, 'Date']].loc[start:end].dropna(): its dates *)
GaugeDataDays(g, start, end) ==
    SortedSeq({d \in DOMAIN data[g] : start <= d /\ d <= end /\ data[g][d] # NaN})

(* gauge_data[str(gauge)].to_numpy() *)
GaugeTs(g, days) == [k \in 1..Len(days) |-> data[g][days[k]]]

(* a variant of the colour with the comparison level <= level_group *)
ColorStrict(level, level_group) == IF level <= level_group THEN "yellow" ELSE "red"

(* PreparationHandler.get_peak_list: the colour of a peak *)
Color(level, level_group) == IF level < level_group THEN "yellow" ELSE "red"

(* find_local_maxima: {date: [value, color]} of the flagged rows *)
find_local_maxima(g, days, flags) ==
    [d \in {days[k] : k \in {j \in 1..Len(days) : flags[j]}} |->
        <<data[g][d], Color(data[g][d], level_groups[g])>>]

(* a variant of the test with the bound centered_window_radius *)
TooShortBelowRadius(days) == Len(days) < delta

(* Too few samples: find_vertices writes an empty dict over the file. *)
TooShort(days) == Len(days) < delta + 1

(* GraphPreparation.save_or_update on a dict file; a file that does not    *)
(* exist yet reads as the empty dict.                                      *)
save_or_update(old, obj) == DictUpdate(old, obj)

(* The content of find_vertices/<g>.json after the loop body for gauge g. *)
VertexFileAfter(g, start, end) ==
    LET days == GaugeDataDays(g, start, end)
    IN  IF TooShort(days) THEN EmptyDict
        ELSE save_or_update(vertex_files[g],
                 find_local_maxima(g, days,
                     get_local_peak_values(GaugeTs(g, days), delta)))

----------------------------------------------------------------------------
(* PreparationHandler.get_dates_in_between                                 *)

RECURSIVE AllDates(_, _)
AllDates(acc, gs) ==
    IF Len(gs) = 0 THEN acc
    ELSE LET x == life[Head(gs)].start
             y == life[Head(gs)].end
             a1 == IF x \in SeqToSet(acc) THEN acc ELSE Append(acc, x)
             a2 == IF y \in SeqToSet(a1) THEN a1 ELSE Append(a1, y)
         IN  AllDates(a2, Tail(gs))

get_dates_in_between(start, end, gs) ==
    LET InRange(d) == start <= d /\ d <= end
    IN  SelectSeq(SortList(AllDates(<<start, end>>, gs)), InRange)

----------------------------------------------------------------------------
(* GraphPreparation.find_existing_gauges.  exist is str(datetime), that    *)
(* is 'YYYY-MM-DD 00:00:00', and is compared as a string with the          *)
(* 'YYYY-MM-DD' strings of the intervals: a date string is a proper prefix *)
(* of the datetime string of the same day, hence smaller.                  *)

DateLeqDatetime(date, datetime) == date <= datetime

DatetimeLeqDate(datetime, date) == datetime < date

Exists(g, start) ==
    LET exist == start + 1
    IN  DateLeqDatetime(life[g].start, exist) /\ DatetimeLeqDate(exist, life[g].end)

find_existing_gauges(start, gauges_copy) ==
    LET Live(g) == Exists(g, start)
    IN  SelectSeq(gauges_copy, Live)

----------------------------------------------------------------------------
(* GraphPreparation.find_edges                                             *)

(* a variant with the two spans exchanged *)
filter_for_start_and_length_exchanged(candidate_vertices, date, forward_span, backward_span) ==
    LET max_date == date + backward_span
        min_date == date - forward_span
    IN  {d \in candidate_vertices : d >= min_date /\ d <= max_date}

(* PreparationHandler.filter_for_start_and_length on the dates of a vertex file *)
filter_for_start_and_length(candidate_vertices, date, forward_span, backward_span) ==
    LET max_date == date + forward_span
        min_date == date - backward_span
    IN  {d \in candidate_vertices : d >= min_date /\ d <= max_date}

(* a variant that takes the tolerances of the next gauge *)
NextGaugeDatesOfNext(current_gauge, next_gauge, actual_date, files) ==
    filter_for_start_and_length(DOMAIN files[next_gauge], actual_date,
                                forward_dict[next_gauge], backward_dict[next_gauge])

(* find_dates_for_next_gauge with the tolerances find_edges passes: those *)
(* of the current gauge                                                   *)
NextGaugeDates(current_gauge, next_gauge, actual_date, files) ==
    filter_for_start_and_length(DOMAIN files[next_gauge], actual_date,
                                forward_dict[current_gauge], backward_dict[current_gauge])

(* gauge_pair after the loop over the peaks of current_gauge;              *)
(* convert_datetime_to_str stores a date only when some next date is found *)
GaugePair(current_gauge, next_gauge, files) ==
    [d \in {p \in DOMAIN files[current_gauge] :
                NextGaugeDates(current_gauge, next_gauge, p, files) # {}} |->
        SortedSeq(NextGaugeDates(current_gauge, next_gauge, d, files))]

(* zip_longest(self.gauges[:-1], self.gauges[1:]) *)
AdjacentPairs(gs) == [k \in 1..(Len(gs) - 1) |-> <<gs[k], gs[k + 1]>>]

(* The edges (as pairs of dates) a date-keyed edge dict lists. *)
EdgesOf(dict) == UNION {{<<d, q>> : q \in SeqToSet(dict[d])} : d \in DOMAIN dict}

----------------------------------------------------------------------------
(* Directed graphs (networkx.DiGraph): a node set and an edge set.  A node *)
(* is <<station, date>>.                                                   *)

EmptyGraph == [nodes |-> {}, edges |-> {}]

(* DiGraph.add_edge: both end nodes are added *)
AddEdge(G, u, v) ==
    [nodes |-> G.nodes \cup {u, v}, edges |-> G.edges \cup {<<u, v>>}]

(* networkx.compose *)
Compose(G, H) == [nodes |-> G.nodes \cup H.nodes, edges |-> G.edges \cup H.edges]

----------------------------------------------------------------------------
(* GraphBuilder (src/src/graph_builder.py).  The builder reads the dates   *)
(* listed under every date of every pair of vertex_pairs.json.             *)

InitBuilder ==
    /\ tree_g = EmptyGraph
    /\ path = EmptyDict
    /\ all_paths = EmptyDict
    /\ wave_serial_number = 0
    /\ branches = <<>>
    /\ flood_wave = EmptyDict
    /\ root_i = 0
    /\ call = <<>>
    /\ build_files = EmptyDict
    /\ joined_graph = EmptyGraph

(* no call on the joined graph has been made *)
InitSelection ==
    /\ sel_call = <<>>
    /\ sel_graph = EmptyGraph
    /\ final_pairs = {}
    /\ flood_waves = {}
    /\ sel_value = [status |-> "none"]
    /\ sel_view = FALSE

(* self.gauge_pairs = list(self.vertex_pairs.keys()) *)
gauge_pairs == vertex_pairs_keys

(* The iterations of the three nested loops of build_graph, in order:      *)
(* <<index of the gauge pair, actual_date, position of next_date>>.        *)
RECURSIVE RootsOfDates(_, _)
RootsOfDates(i, dates) ==
    IF Len(dates) = 0 THEN <<>>
    ELSE [k \in 1..Len(vertex_pairs[gauge_pairs[i]][Head(dates)]) |-> <<i, Head(dates), k>>]
         \o RootsOfDates(i, Tail(dates))

RECURSIVE RootsFrom(_)
RootsFrom(i) ==
    IF i > Len(gauge_pairs) THEN <<>>
    ELSE RootsOfDates(i, SortedSeq(DOMAIN vertex_pairs[gauge_pairs[i]])) \o RootsFrom(i + 1)

Roots == RootsFrom(1)

(* build_graph: JsonHelper.read of vertex_pairs.json, which find_edges     *)
(* writes only when it has a pair; reading a missing file raises.          *)
BuildStart ==
    /\ pc = "build_graph"
    /\ IF Len(vertex_pairs_keys) = 0
       THEN pc' = "error"
       ELSE IF Len(Roots) = 0 THEN pc' = "create_directed_graph" ELSE pc' = "root"
    /\ root_i' = 1
    /\ UNCHANGED prepVars
    /\ UNCHANGED selVars
    /\ UNCHANGED <<tree_g, path, all_paths, wave_serial_number, branches, flood_wave,
                   call, build_files, joined_graph>>

(* One iteration of the innermost loop, up to the call of create_flood_wave: *)
(* reset_tree_and_flood_wave (for the first next_date of an actual_date),    *)
(* reset_gauge_pair_index_and_serial_number, add_to_graph.                   *)
RootEdge ==
    /\ pc = "root"
    /\ LET r == Roots[root_i]
           gauge_pair == gauge_pairs[r[1]]
           actual_date == r[2]
           next_date == vertex_pairs[gauge_pair][actual_date][r[3]]
           actual_gauge == gauge_pair[1]
           next_gauge == gauge_pair[2]
           g0 == IF r[3] = 1 THEN EmptyGraph ELSE tree_g
           next_g_p_idx == 1
       IN  /\ tree_g' = AddEdge(g0, <<actual_gauge, actual_date>>, <<next_gauge, next_date>>)
           /\ flood_wave' = IF r[3] = 1 THEN EmptyDict ELSE flood_wave
           /\ wave_serial_number' = 0
           /\ all_paths' = EmptyDict
           /\ path' = DictUpdate([g \in {actual_gauge} |-> actual_date],
                                 [g \in {next_gauge} |-> next_date])
           /\ call' = <<next_date, next_g_p_idx>>
    /\ pc' = "create_flood_wave"
    /\ UNCHANGED prepVars
    /\ UNCHANGED selVars
    /\ UNCHANGED <<branches, root_i, build_files, joined_graph>>

(* save_info_about_branches for the dates new_date_value[1:], in order *)
RECURSIVE SaveBranches(_, _, _, _, _, _)
SaveBranches(st, rest, k, current_gauge, next_gauge, c) ==
    IF Len(rest) = 0 THEN st
    ELSE LET date == Head(rest)
             path_partial == DictUpdate(path, [g \in {next_gauge} |-> date])
             new_path_key == <<c[2] + 1, k>>
             st1 == [tree |-> AddEdge(st.tree, <<current_gauge, c[1]>>, <<next_gauge, date>>),
                     paths |-> DictUpdate(st.paths,
                                          [x \in {new_path_key} |-> path_partial]),
                     queue |-> Append(st.queue, <<date, c[2] + 1, new_path_key>>)]
         IN  SaveBranches(st1, Tail(rest), k + 1, current_gauge, next_gauge, c)

(* One call of create_flood_wave(next_gauge_date, next_idx).  The          *)
(* recursive call is the last statement of its branch, so the callee       *)
(* replaces the caller; gauge_pairs[next_idx] raises IndexError when       *)
(* next_idx is past the last pair.                                         *)
CreateFloodWave ==
    /\ pc = "create_flood_wave"
    /\ LET next_gauge_date == call[1]
           next_idx == call[2]
           max_index_value == Len(vertex_pairs_keys) - 1
       IN  IF next_idx > max_index_value
           THEN /\ pc' = "error"
                /\ UNCHANGED <<tree_g, path, all_paths, wave_serial_number, branches,
                               flood_wave, call>>
           ELSE LET next_gauge_pair == gauge_pairs[next_idx + 1]
                    current_gauge == next_gauge_pair[1]
                    next_gauge == next_gauge_pair[2]
                    next_gauge_pair_dates == vertex_pairs[next_gauge_pair]
                    can_path_be_continued == next_gauge_date \in DOMAIN next_gauge_pair_dates
                IN  IF can_path_be_continued /\ next_idx < max_index_value
                    THEN LET new_date_value == next_gauge_pair_dates[next_gauge_date]
                             new_gauge_date == new_date_value[1]
                             st == SaveBranches([tree |-> tree_g, paths |-> all_paths,
                                                 queue |-> branches],
                                                Tail(new_date_value), 0,
                                                current_gauge, next_gauge, call)
                         IN  /\ tree_g' = AddEdge(st.tree, <<current_gauge, next_gauge_date>>,
                                                  <<next_gauge, new_gauge_date>>)
                             /\ all_paths' = st.paths
                             /\ branches' = st.queue
                             /\ path' = DictUpdate(path,
                                                   [g \in {next_gauge} |-> new_gauge_date])
                             /\ call' = <<new_gauge_date, next_idx + 1>>
                             /\ pc' = "create_flood_wave"
                             /\ UNCHANGED <<wave_serial_number, flood_wave>>
                    ELSE /\ flood_wave' = DictUpdate(flood_wave,
                                              [x \in {wave_serial_number} |-> path])
                         /\ wave_serial_number' = wave_serial_number + 1
                         /\ pc' = "depth_first_search"
                         /\ UNCHANGED <<tree_g, path, all_paths, branches, call>>
    /\ UNCHANGED prepVars
    /\ UNCHANGED selVars
    /\ UNCHANGED <<root_i, build_files, joined_graph>>

(* depth_first_search: one iteration of the while loop *)
DepthFirstSearch ==
    /\ pc = "depth_first_search"
    /\ Len(branches) # 0
    /\ LET top == branches[Len(branches)]
       IN  /\ branches' = SubSeq(branches, 1, Len(branches) - 1)
           /\ path' = all_paths[top[3]]
           /\ call' = <<top[1], top[2]>>
    /\ pc' = "create_flood_wave"
    /\ UNCHANGED prepVars
    /\ UNCHANGED selVars
    /\ UNCHANGED <<tree_g, all_paths, wave_serial_number, flood_wave, root_i,
                   build_files, joined_graph>>

(* build_graph: the tree is written to build_graph/<gauge_pair>/<actual_date> *)
SaveTree ==
    /\ pc = "depth_first_search"
    /\ Len(branches) = 0
    /\ LET r == Roots[root_i]
       IN  build_files' = DictUpdate(build_files,
                                     [x \in {<<gauge_pairs[r[1]], r[2]>>} |-> tree_g])
    /\ root_i' = root_i + 1
    /\ pc' = IF root_i + 1 > Len(Roots) THEN "create_directed_graph" ELSE "root"
    /\ UNCHANGED prepVars
    /\ UNCHANGED selVars
    /\ UNCHANGED <<tree_g, path, all_paths, wave_serial_number, branches, flood_wave,
                   call, joined_graph>>

----------------------------------------------------------------------------
(* GraphManipulation.create_directed_graph over builder.gauge_pairs        *)

(* sort_wave: the files whose root date lies in [start, end] *)
sort_wave(filenames, start, end) == {f \in filenames : start <= f[2] /\ f[2] <= end}

(* compose_graph for every gauge pair, starting from the empty graph *)
RECURSIVE ComposeAll(_, _)
ComposeAll(G, files) ==
    IF files = {} THEN G
    ELSE LET f == CHOOSE x \in files : TRUE
         IN  ComposeAll(Compose(G, build_files[f]), files \ {f})

create_directed_graph(start, end, pairs) ==
    ComposeAll(EmptyGraph,
               sort_wave({f \in DOMAIN build_files : f[1] \in SeqToSet(pairs)}, start, end))

CreateDirectedGraph ==
    /\ pc = "create_directed_graph"
    /\ joined_graph' = create_directed_graph(start_date, end_date, gauge_pairs)
    /\ pc' = "done"
    /\ UNCHANGED prepVars
    /\ UNCHANGED selVars
    /\ UNCHANGED <<tree_g, path, all_paths, wave_serial_number, branches, flood_wave,
                   root_i, call, build_files>>

NextBuild ==
    BuildStart \/ RootEdge \/ CreateFloodWave \/ DepthFirstSearch \/ SaveTree
        \/ CreateDirectedGraph

----------------------------------------------------------------------------
(* GraphPreparation.run, one action per call of the loop body.             *)

UsedGauges == SeqToSet(all_gauges)

UsedPairs == {<<u, v>> : u \in UsedGauges, v \in UsedGauges}

(* mkdirs, the deep copy of the gauges, get_dates_in_between *)
RunStart ==
    /\ pc = "start"
    /\ cut_dates' = get_dates_in_between(start_date, end_date, gauges)
    /\ idx' = 0
    /\ pc' = "loop"
    /\ UNCHANGED builderVars
    /\ UNCHANGED selVars
    /\ UNCHANGED <<data, delta, life, backward_dict, forward_dict, all_gauges, gauges,
                   start_date, end_date, vertex_files, edge_files, vertex_pairs_keys,
                   vertex_pairs, gauge_ts, gauge_days, local_peak_values, found>>

(* for i in range(len(cut_dates) - 1): self.gauges = self.find_existing_gauges(...) *)
FindExistingGauges ==
    /\ pc = "loop"
    /\ idx + 1 <= Len(cut_dates) - 1
    /\ start_date' = cut_dates[idx + 1]
    /\ end_date' = cut_dates[idx + 2]
    /\ gauges' = find_existing_gauges(cut_dates[idx + 1], all_gauges)
    /\ pc' = "find_vertices"
    /\ UNCHANGED builderVars
    /\ UNCHANGED selVars
    /\ UNCHANGED <<data, delta, life, backward_dict, forward_dict, all_gauges, cut_dates,
                   idx, vertex_files, edge_files, vertex_pairs_keys, vertex_pairs,
                   gauge_ts, gauge_days, local_peak_values, found>>

(* self.find_vertices(): the loop over self.gauges *)
FindVertices ==
    /\ pc = "find_vertices"
    /\ LET gs == SeqToSet(gauges)
           days(g) == GaugeDataDays(g, start_date, end_date)
           flags(g) == get_local_peak_values(GaugeTs(g, days(g)), delta)
       IN  /\ vertex_files' = [g \in UsedGauges |->
                                  IF g \in gs THEN VertexFileAfter(g, start_date, end_date)
                                  ELSE vertex_files[g]]
           /\ gauge_days' = [g \in UsedGauges |-> IF g \in gs THEN days(g) ELSE <<>>]
           /\ gauge_ts' = [g \in UsedGauges |->
                              IF g \in gs THEN GaugeTs(g, days(g)) ELSE <<>>]
           /\ local_peak_values' = [g \in UsedGauges |->
                                       IF g \in gs /\ ~TooShort(days(g)) THEN flags(g)
                                       ELSE <<>>]
           /\ found' = [found EXCEPT !.peaks = [g \in UsedGauges |->
                            IF g \in gs /\ ~TooShort(days(g))
                            THEN found.peaks[g] \cup
                                 DOMAIN find_local_maxima(g, days(g), flags(g))
                            ELSE found.peaks[g]]]
    /\ pc' = "find_edges"
    /\ UNCHANGED builderVars
    /\ UNCHANGED selVars
    /\ UNCHANGED <<data, delta, life, backward_dict, forward_dict, all_gauges, gauges,
                   start_date, end_date, cut_dates, idx, edge_files, vertex_pairs_keys,
                   vertex_pairs>>

(* self.find_edges(): the loop over the adjacent pairs of self.gauges *)
FindEdges ==
    /\ pc = "find_edges"
    /\ LET pairs == AdjacentPairs(gauges)
           ps == SeqToSet(pairs)
           gp(p) == GaugePair(p[1], p[2], vertex_files)
           IsNew(p) == p \notin SeqToSet(vertex_pairs_keys)
       IN  /\ edge_files' = [p \in UsedPairs |->
                                IF p \in ps THEN save_or_update(edge_files[p], gp(p))
                                ELSE edge_files[p]]
           /\ vertex_pairs' = [p \in UsedPairs |->
                                  IF p \in ps THEN gp(p) ELSE vertex_pairs[p]]
           /\ vertex_pairs_keys' = vertex_pairs_keys \o SelectSeq(pairs, IsNew)
           /\ found' = [found EXCEPT !.edges = [p \in UsedPairs |->
                            IF p \in ps THEN found.edges[p] \cup EdgesOf(gp(p))
                            ELSE found.edges[p]]]
    /\ idx' = idx + 1
    /\ pc' = "loop"
    /\ UNCHANGED builderVars
    /\ UNCHANGED selVars
    /\ UNCHANGED <<data, delta, life, backward_dict, forward_dict, all_gauges, gauges,
                   start_date, end_date, cut_dates, vertex_files, gauge_ts, gauge_days,
                   local_peak_values>>

(* after the loop: the original values are set back (cut_dates[0] raises   *)
(* IndexError on an empty list)                                            *)
RunFinish ==
    /\ pc = "loop"
    /\ idx + 1 > Len(cut_dates) - 1
    /\ IF Len(cut_dates) = 0
       THEN pc' = "error" /\ UNCHANGED <<gauges, start_date, end_date>>
       ELSE /\ gauges' = all_gauges
            /\ start_date' = cut_dates[1]
            /\ end_date' = cut_dates[Len(cut_dates)]
            /\ pc' = "build_graph"
    /\ UNCHANGED builderVars
    /\ UNCHANGED selVars
    /\ UNCHANGED <<data, delta, life, backward_dict, forward_dict, all_gauges, cut_dates,
                   idx, vertex_files, edge_files, vertex_pairs_keys, vertex_pairs,
                   gauge_ts, gauge_days, local_peak_values, found>>

NextRun == RunStart \/ FindExistingGauges \/ FindVertices \/ FindEdges \/ RunFinish

----------------------------------------------------------------------------
(* Peak detection on one station: every series of levels with gaps.        *)

PeakDays == 1..PeakMaxDay

PeakLevels == 0..PeakMaxLevel

InitPeaks ==
    /\ all_gauges = <<1>>
    /\ gauges = all_gauges
    /\ data \in [{1} -> [PeakDays -> PeakLevels \cup {NaN}]]
    /\ delta \in 1..PeakMaxDelta
    /\ life = [g \in {1} |-> [start |-> 0, end |-> PeakMaxDay + 1]]
    /\ backward_dict = [g \in {1} |-> 0]
    /\ forward_dict = [g \in {1} |-> 0]
    /\ start_date = 1
    /\ end_date = PeakMaxDay
    /\ cut_dates = <<>>
    /\ idx = 0
    /\ pc = "start"
    /\ vertex_files = [g \in {1} |-> EmptyDict]
    /\ edge_files = [p \in {<<1, 1>>} |-> EmptyDict]
    /\ vertex_pairs_keys = <<>>
    /\ vertex_pairs = [p \in {<<1, 1>>} |-> EmptyDict]
    /\ gauge_ts = [g \in {1} |-> <<>>]
    /\ gauge_days = [g \in {1} |-> <<>>]
    /\ local_peak_values = [g \in {1} |-> <<>>]
    /\ found = [peaks |-> [g \in {1} |-> {}], edges |-> [p \in {<<1, 1>>} |-> {}]]
    /\ InitBuilder
    /\ InitSelection

SpecPeaks == InitPeaks /\ [][NextRun]_vars

----------------------------------------------------------------------------
(* The whole pipeline of get_graph_run.main: GraphPreparation.run, then    *)
(* GraphBuilder.build_graph, then GraphManipulation.create_directed_graph. *)

(* Bounds of the pipeline: days, high-water days in the data, radius. *)
RunMaxDay == 6
RunMaxPulses == 3
RunMaxDelta == 2

RunDays == 1..RunMaxDay

(* the stations by increasing river km *)
RECURSIVE SortAscending(_)
SortAscending(S) ==
    IF S = {} THEN <<>>
    ELSE LET m == CHOOSE x \in S : \A y \in S : river_kms[x] <= river_kms[y]
         IN  <<m>> \o SortAscending(S \ {m})

(* Dataloader.get_metadata: sort_values(by='river_km', ascending=False),   *)
(* FloodWaveData.gauges: the index of the sorted table.                    *)
RECURSIVE SortDescending(_)
SortDescending(S) ==
    IF S = {} THEN <<>>
    ELSE LET m == CHOOSE x \in S : \A y \in S : river_kms[x] >= river_kms[y]
         IN  <<m>> \o SortDescending(S \ {m})

(* a variant of the gauge list, in increasing river km *)
MetaGaugesAscending == SortAscending(StationIds)

MetaGauges == SortDescending(StationIds)

(* All subsets of S with at most k elements. *)
RECURSIVE SubsetsUpTo(_, _)
SubsetsUpTo(S, k) ==
    IF k = 0 THEN {{}}
    ELSE LET T == SubsetsUpTo(S, k - 1)
         IN  T \cup {t \cup {e} : t \in T, e \in S}

(* Level series: level 1 on at most RunMaxPulses (station, day) cells, 0 elsewhere. *)
RunData == {[g \in StationIds |-> [d \in RunDays |-> IF <<g, d>> \in P THEN 1 ELSE 0]] :
               P \in SubsetsUpTo(StationIds \X RunDays, RunMaxPulses)}

(* Existence intervals: every station exists throughout, or one station    *)
(* starts or ends on a day c inside the period.                            *)
Throughout == [start |-> 0, end |-> RunMaxDay + 1]

RunLife ==
    {[g \in StationIds |-> Throughout]}
    \cup {[g \in StationIds |-> IF g = s THEN [start |-> 0, end |-> c] ELSE Throughout] :
             s \in StationIds, c \in 2..(RunMaxDay - 1)}
    \cup {[g \in StationIds |-> IF g = s THEN [start |-> c, end |-> RunMaxDay + 1]
                                ELSE Throughout] :
             s \in StationIds, c \in 2..(RunMaxDay - 1)}

InitPrep ==
    /\ all_gauges = MetaGauges
    /\ gauges = all_gauges
    /\ backward_dict = [g \in StationIds |-> g % 2]
    /\ forward_dict = [g \in StationIds |-> 1 + (g % 2)]
    /\ start_date = 1
    /\ end_date = RunMaxDay
    /\ cut_dates = <<>>
    /\ idx = 0
    /\ pc = "start"
    /\ vertex_files = [g \in StationIds |-> EmptyDict]
    /\ edge_files = [p \in StationIds \X StationIds |-> EmptyDict]
    /\ vertex_pairs_keys = <<>>
    /\ vertex_pairs = [p \in StationIds \X StationIds |-> EmptyDict]
    /\ gauge_ts = [g \in StationIds |-> <<>>]
    /\ gauge_days = [g \in StationIds |-> <<>>]
    /\ local_peak_values = [g \in StationIds |-> <<>>]
    /\ found = [peaks |-> [g \in StationIds |-> {}],
                edges |-> [p \in StationIds \X StationIds |-> {}]]

Init ==
    /\ data \in RunData
    /\ delta \in 1..RunMaxDelta
    /\ life \in RunLife
    /\ InitPrep
    /\ InitBuilder
    /\ InitSelection

Next == NextRun \/ NextBuild

Spec == Init /\ [][Next]_vars

----------------------------------------------------------------------------
(* C1: get_local_peak_values flags index i exactly when, for every shift k *)
(* in 1..delta, x[i-k] < x[i] and x[i] >= x[i+k]; an index whose window    *)
(* leaves the series (i < delta or i >= n - delta, 0-based) is never       *)
(* flagged.  Index k of the model is index k - 1 of the array.             *)
C1_PeakIffWindow ==
    \A g \in UsedGauges :
        (pc # "start" /\ pc # "loop" /\ pc # "find_vertices" /\ gauge_ts[g] # <<>>
            /\ Len(gauge_ts[g]) >= delta + 1) =>
        LET x == gauge_ts[g]
            n == Len(x)
        IN  /\ Len(local_peak_values[g]) = n
            /\ \A k \in 1..n :
                   local_peak_values[g][k] <=>
                       /\ k - 1 >= delta
                       /\ k - 1 < n - delta
                       /\ \A sh \in 1..delta : x[k - sh] < x[k] /\ x[k] >= x[k + sh]

(* C1 witness: with radius 2 an index is flagged whose right neighbour has *)
(* the same level (a plateau).                                             *)
C1_Witness ==
    /\ pc = "find_edges"
    /\ delta = 2
    /\ \E k \in 1..Len(local_peak_values[1]) :
           /\ local_peak_values[1][k]
           /\ gauge_ts[1][k] = gauge_ts[1][k + 1]

(* C2: a day with a missing sample inside its centred window               *)
(* [d - delta, d + delta] is not reported as a peak by find_vertices.      *)
C2_MissingInWindowIsNoPeak ==
    \A g \in UsedGauges :
        \A d \in DOMAIN vertex_files[g] :
            \A w \in (d - delta)..(d + delta) :
                w \in DOMAIN data[g] => data[g][w] # NaN

----------------------------------------------------------------------------
(* Graph notions used by the statements below.                             *)

Successors(G, S) == {e[2] : e \in {x \in G.edges : x[1] \in S}}

Predecessors(G, S) == {e[1] : e \in {x \in G.edges : x[2] \in S}}

(* The nodes reachable from the set S along directed edges (S included). *)
RECURSIVE Descendants(_, _)
Descendants(G, S) ==
    LET T == S \cup Successors(G, S)
    IN  IF T = S THEN S ELSE Descendants(G, T)

HasPath(G, s, t) == t \in Descendants(G, {s})

Acyclic(G) == \A n \in G.nodes : n \notin Descendants(G, Successors(G, {n}))

(* Every edge of G goes to a station of strictly smaller river km. *)
Downstream(G) == \A e \in G.edges : river_kms[e[1][1]] > river_kms[e[2][1]]

(* The dates find_edges recorded under the peak p of u for the pair (u, v). *)
Recorded(dict, p) == IF p \in DOMAIN dict THEN SeqToSet(dict[p]) ELSE {}

----------------------------------------------------------------------------
(* C3: after find_edges, for every adjacent pair (u, v) of the gauges and  *)
(* every peak p of u, the dates recorded under p are exactly the peak      *)
(* dates q of v with p - alpha_u <= q <= p + beta_u (the tolerances of the *)
(* upstream station); none, one or several are kept, each once.            *)
C3_EdgesExactlyWindow ==
    (pc = "loop" /\ idx >= 1) =>
        \A k \in 1..(Len(gauges) - 1) :
            LET u == gauges[k]
                v == gauges[k + 1]
                dict == vertex_pairs[<<u, v>>]
            IN  /\ DOMAIN dict \subseteq DOMAIN vertex_files[u]
                /\ \A p \in DOMAIN vertex_files[u] :
                       /\ Recorded(dict, p) =
                              {q \in DOMAIN vertex_files[v] :
                                  p - backward_dict[u] <= q /\ q <= p + forward_dict[u]}
                       /\ p \in DOMAIN dict =>
                              Len(dict[p]) = Cardinality(Recorded(dict, p))

(* C3 witness: find_edges has recorded several dates under one peak. *)
C3_Witness ==
    /\ pc = "loop"
    /\ idx >= 1
    /\ \E k \in 1..(Len(gauges) - 1) :
           \E p \in DOMAIN vertex_pairs[<<gauges[k], gauges[k + 1]>>] :
               Len(vertex_pairs[<<gauges[k], gauges[k + 1]>>][p]) >= 2

(* C4: when run() has processed all sub-periods, the stored peaks of every *)
(* station are the union of the peaks found for it in the sub-periods, and *)
(* the stored edges of every pair are the union of the edges found.        *)
C4_MergedIsUnion ==
    pc = "build_graph" =>
        /\ \A g \in UsedGauges : DOMAIN vertex_files[g] = found.peaks[g]
        /\ \A p \in UsedPairs : EdgesOf(edge_files[p]) = found.edges[p]

(* C5: no edge of the merged output skips a station that lies between its  *)
(* two stations on the river and exists at the dates of both end points.   *)
ExistsAt(w, d) == life[w].start <= d /\ d <= life[w].end

C5_NoLiveStationSkipped ==
    \A p \in UsedPairs :
        \A e \in EdgesOf(vertex_pairs[p]) \cup EdgesOf(edge_files[p]) :
            ~ \E w \in UsedGauges :
                /\ river_kms[p[1]] > river_kms[w]
                /\ river_kms[w] > river_kms[p[2]]
                /\ ExistsAt(w, e[1])
                /\ ExistsAt(w, e[2])

(* C7: every edge of every graph the builder makes (the tree under         *)
(* construction, the trees written, the composed graph) goes to a station  *)
(* of strictly smaller river km; there is no self-loop and no cycle.       *)
C7_EdgesGoDownstream ==
    /\ Downstream(tree_g)
    /\ \A f \in DOMAIN build_files : Downstream(build_files[f])
    /\ Downstream(joined_graph)
    /\ \A e \in joined_graph.edges : e[1] # e[2]
    /\ Acyclic(joined_graph)

(* C7 witness: the composed graph holds a path over two edges. *)
C7_Witness ==
    /\ pc = "done"
    /\ \E e \in joined_graph.edges : \E f \in joined_graph.edges : e[2] = f[1]

----------------------------------------------------------------------------
(* GraphBuilder.build_graph on a vertex_pairs.json of any content: the     *)
(* pairs are pairs of an upstream and a downstream station, in any order   *)
(* of insertion, each with a (possibly empty) dict of date lists.          *)

BuildMaxDate == 2
BuildMaxPairs == 3
BuildMaxEdges == 3

BuildDates == 1..BuildMaxDate

(* pairs <<u, v>> of stations with u upstream of v *)
DownPairs == {p \in StationIds \X StationIds : river_kms[p[1]] > river_kms[p[2]]}

(* the key lists of vertex_pairs.json: distinct pairs in insertion order *)
RECURSIVE KeyLists(_)
KeyLists(n) ==
    IF n = 0 THEN {<<>>}
    ELSE LET shorter == KeyLists(n - 1)
         IN  shorter \cup {Append(s, p) : s \in shorter, p \in DownPairs}

BuildKeyLists ==
    {s \in KeyLists(BuildMaxPairs) :
        /\ Len(s) >= 1
        /\ \A i \in 1..Len(s) : \A j \in 1..Len(s) : i # j => s[i] # s[j]}

(* the dict of a pair that lists the edges E (triples <<pair, d, q>>) *)
PairDict(E, p) ==
    [d \in {e[2] : e \in {x \in E : x[1] = p}} |->
        SortedSeq({e[3] : e \in {x \in E : x[1] = p /\ x[2] = d}})]

(* the peaks the edges E end at, as a vertex file of station g *)
PeaksOf(E, g) ==
    [d \in {e[2] : e \in {x \in E : x[1][1] = g}}
           \cup {e[3] : e \in {x \in E : x[1][2] = g}} |-> <<1, Color(1, level_groups[g])>>]

InitBuild ==
    /\ all_gauges = MetaGauges
    /\ gauges = all_gauges
    /\ data = [g \in StationIds |-> [d \in BuildDates |-> 0]]
    /\ delta = 1
    /\ life = [g \in StationIds |-> [start |-> 0, end |-> BuildMaxDate + 1]]
    /\ backward_dict = [g \in StationIds |-> BuildMaxDate]
    /\ forward_dict = [g \in StationIds |-> BuildMaxDate]
    /\ start_date = 1
    /\ end_date = BuildMaxDate
    /\ cut_dates = <<1, BuildMaxDate>>
    /\ idx = 1
    /\ pc = "build_graph"
    /\ vertex_pairs_keys \in BuildKeyLists
    /\ \E E \in SubsetsUpTo(SeqToSet(vertex_pairs_keys) \X BuildDates \X BuildDates,
                            BuildMaxEdges) :
          /\ vertex_pairs = [p \in StationIds \X StationIds |-> PairDict(E, p)]
          /\ edge_files = vertex_pairs
          /\ vertex_files = [g \in StationIds |-> PeaksOf(E, g)]
          /\ found = [peaks |-> [g \in StationIds |-> DOMAIN PeaksOf(E, g)],
                      edges |-> [p \in StationIds \X StationIds |->
                                    {<<e[2], e[3]>> : e \in {x \in E : x[1] = p}}]]
    /\ gauge_ts = [g \in StationIds |-> <<>>]
    /\ gauge_days = [g \in StationIds |-> <<>>]
    /\ local_peak_values = [g \in StationIds |-> <<>>]
    /\ InitBuilder
    /\ InitSelection

SpecBuild == InitBuild /\ [][NextBuild]_vars

(* the edges vertex_pairs.json lists, as graph edges *)
TableEdges ==
    UNION {{<<<<p[1], e[1]>>, <<p[2], e[2]>>>> : e \in EdgesOf(vertex_pairs[p])} :
              p \in SeqToSet(vertex_pairs_keys)}

EndpointsOf(E) == {e[1] : e \in E} \cup {e[2] : e \in E}

(* C6: when build_graph has ended, composing the trees it wrote over the   *)
(* whole date range gives exactly the edges vertex_pairs lists, and the    *)
(* vertices are exactly the endpoints of those edges.                      *)
C6_ComposedTreesAreVertexPairs ==
    pc \in {"create_directed_graph", "done", "error"} =>
        LET G == create_directed_graph(start_date, end_date, gauge_pairs)
        IN  /\ G.edges = TableEdges
            /\ G.nodes = EndpointsOf(TableEdges)

(* The same for a vertex_pairs.json with two pairs or more. *)
C6_ComposedTreesOfTwoPairs ==
    (pc \in {"create_directed_graph", "done", "error"} /\ Len(vertex_pairs_keys) >= 2) =>
        LET G == create_directed_graph(start_date, end_date, gauge_pairs)
        IN  /\ G.edges = TableEdges
            /\ G.nodes = EndpointsOf(TableEdges)

----------------------------------------------------------------------------
(* Selection (src/src/selection) and FloodWaveExtractor on a joined graph. *)

(* nx.weakly_connected_components: the component of a node set *)
RECURSIVE WeakClosure(_, _)
WeakClosure(G, S) ==
    LET T == S \cup (Successors(G, S) \cup Predecessors(G, S))
    IN  IF T = S THEN S ELSE WeakClosure(G, T)

weakly_connected_components(G) == {WeakClosure(G, {n}) : n \in G.nodes}

(* SelectionHandler.get_gauges: the stations of the nodes (its order is not used) *)
get_gauges(comps) == {n[1] : n \in UNION comps}

(* SelectionHandler.is_gauge_in_comp *)
is_gauge_in_comp(gauge, comp_list) == \E elem \in comp_list : gauge = elem[1]

(* a variant of nodes_and_edges that keeps every edge *)
nodes_and_edges_all(comps, edges) == [nodes |-> UNION comps, edges |-> edges]

(* SelectionHandler.nodes_and_edges: an edge is kept when its first node   *)
(* is in a component kept                                                  *)
nodes_and_edges(comps, edges) ==
    [nodes |-> UNION comps,
     edges |-> {edge \in edges : \E comp \in comps : edge[1] \in comp}]

(* g = nx.DiGraph(); g.add_nodes_from(nodes); g.add_edges_from(edges) *)
DiGraphOf(ne) ==
    [nodes |-> ne.nodes \cup ({e[1] : e \in ne.edges} \cup {e[2] : e \in ne.edges}),
     edges |-> ne.edges]

(* list.index, 1-based; the station is in the list *)
IndexOf(s, x) == CHOOSE i \in 1..Len(s) : s[i] = x /\ \A j \in 1..(i - 1) : s[j] # x

(* a variant of the slice without the end station *)
FilteredStationsOpen(sorted_stations, start_station, end_station) ==
    SeqToSet(SubSeq(sorted_stations, IndexOf(sorted_stations, start_station),
                    IndexOf(sorted_stations, end_station) - 1))

(* sorted_stations[index(start_station):index(end_station) + 1] *)
FilteredStations(sorted_stations, start_station, end_station) ==
    SeqToSet(SubSeq(sorted_stations, IndexOf(sorted_stations, start_station),
                    IndexOf(sorted_stations, end_station)))

select_by_station(G, station) ==
    LET comps == weakly_connected_components(G)
        comps_new == {comp \in comps : is_gauge_in_comp(station, comp)}
    IN  DiGraphOf(nodes_and_edges(comps_new, G.edges))

select_intersecting_with_interval(G, start_station, end_station, sorted_stations) ==
    LET comps == weakly_connected_components(G)
        gauges_in == get_gauges(comps)
        filtered_stations == FilteredStations(sorted_stations, start_station, end_station)
        final_stations == gauges_in \cap filtered_stations
        comps_new == {comp \in comps :
                         \E station \in final_stations : is_gauge_in_comp(station, comp)}
    IN  DiGraphOf(nodes_and_edges(comps_new, G.edges))

(* DiGraph.remove_node for every node of S: the nodes and their edges go *)
RemoveNodes(G, S) ==
    [nodes |-> G.nodes \ S,
     edges |-> {e \in G.edges : e[1] \notin S /\ e[2] \notin S}]

select_only_in_interval(G, start_station, end_station, sorted_stations) ==
    LET filtered == select_intersecting_with_interval(G, start_station, end_station,
                                                       sorted_stations)
        comps == weakly_connected_components(filtered)
        gauges_in == get_gauges(comps)
        filtered_stations == FilteredStations(sorted_stations, start_station, end_station)
        stations_to_delete == gauges_in \ filtered_stations
    IN  RemoveNodes(filtered, {node \in filtered.nodes : node[1] \in stations_to_delete})

(* FloodWaveHandler.get_final_pairs for one component: float(x[0]) > float(y[0]) *)
(* compares the station ids of the two nodes.                                   *)
InDegree(G, n) == Cardinality({e \in G.edges : e[2] = n})

OutDegree(G, n) == Cardinality({e \in G.edges : e[1] = n})

get_final_pairs(G, comp) ==
    LET possible_start_nodes == {node \in comp : InDegree(G, node) = 0}
        possible_end_nodes == {node \in comp : OutDegree(G, node) = 0}
    IN  {xy \in possible_start_nodes \X possible_end_nodes : xy[1][1] > xy[2][1]}

(* the directed paths of n edges from s to t, as node sequences *)
RECURSIVE PathsOfLen(_, _, _, _)
PathsOfLen(G, s, t, n) ==
    IF n = 0 THEN (IF s = t THEN {<<s>>} ELSE {})
    ELSE UNION {{<<s>> \o q : q \in PathsOfLen(G, m, t, n - 1)} : m \in Successors(G, {s})}

(* nx.shortest_path(G, s, t): one of the shortest paths; the empty set     *)
(* stands for NetworkXNoPath.                                              *)
RECURSIVE ShortestPaths(_, _, _, _)
ShortestPaths(G, s, t, n) ==
    IF n >= Cardinality(G.nodes) THEN {}
    ELSE LET P == PathsOfLen(G, s, t, n)
         IN  IF P # {} THEN P ELSE ShortestPaths(G, s, t, n + 1)

(* the lists of waves get_flood_waves can build for the pairs: one         *)
(* shortest path for every pair that has a path                            *)
RECURSIVE WaveChoices(_, _)
WaveChoices(G, pairs) ==
    IF pairs = {} THEN {{}}
    ELSE LET p == CHOOSE x \in pairs : TRUE
             rest == WaveChoices(G, pairs \ {p})
             P == ShortestPaths(G, p[1], p[2], 0)
         IN  IF P = {} THEN rest ELSE {c \cup {w} : c \in rest, w \in P}

AllFinalPairs(G) == UNION {get_final_pairs(G, comp) : comp \in weakly_connected_components(G)}

(* Joined graphs: at most SelMaxEdges edges, each from a station to a      *)
(* station downstream of it, and at most SelMaxIsolated further nodes.     *)
SelMaxDate == 2
SelMaxEdges == 4
SelMaxIsolated == 1

SelNodes == StationIds \X (1..SelMaxDate)

SelEdgeCells == {e \in SelNodes \X SelNodes : <<e[1][1], e[2][1]>> \in DownPairs}

SelGraphs ==
    {[nodes |-> EndpointsOf(E) \cup I, edges |-> E] :
        E \in SubsetsUpTo(SelEdgeCells, SelMaxEdges),
        I \in SubsetsUpTo(SelNodes, SelMaxIsolated)}

(* One call on the joined graph per behaviour: the functions do not change *)
(* their argument and keep no state between calls.                         *)

(* the station lists a caller passes as sorted_stations: the stations in   *)
(* river order, or in numerically decreasing order                         *)
IdsDescending == [i \in 1..NumStations |-> NumStations + 1 - i]

OrderedStationLists == {MetaGauges, IdsDescending}

SelectByStation ==
    /\ pc = "done"
    /\ sel_call = <<>>
    /\ \E station \in StationIds :
          /\ sel_call' = <<"select_by_station", station>>
          /\ sel_graph' = select_by_station(joined_graph, station)
    /\ sel_value' = [status |-> "returned"]
    /\ UNCHANGED <<pc, final_pairs, flood_waves, sel_view>>
    /\ UNCHANGED prepVars
    /\ UNCHANGED builderVars

SelectIntersectingWithInterval ==
    /\ pc = "done"
    /\ sel_call = <<>>
    /\ \E start_station \in StationIds, end_station \in StationIds,
          sorted_stations \in OrderedStationLists :
          /\ sel_call' = <<"select_intersecting_with_interval", start_station,
                           end_station, sorted_stations>>
          /\ sel_graph' = select_intersecting_with_interval(joined_graph, start_station,
                                                            end_station, sorted_stations)
    /\ sel_value' = [status |-> "returned"]
    /\ UNCHANGED <<pc, final_pairs, flood_waves, sel_view>>
    /\ UNCHANGED prepVars
    /\ UNCHANGED builderVars

SelectOnlyInInterval ==
    /\ pc = "done"
    /\ sel_call = <<>>
    /\ \E start_station \in StationIds, end_station \in StationIds,
          sorted_stations \in OrderedStationLists :
          /\ sel_call' = <<"select_only_in_interval", start_station, end_station,
                           sorted_stations>>
          /\ sel_graph' = select_only_in_interval(joined_graph, start_station,
                                                  end_station, sorted_stations)
    /\ sel_value' = [status |-> "returned"]
    /\ UNCHANGED <<pc, final_pairs, flood_waves, sel_view>>
    /\ UNCHANGED prepVars
    /\ UNCHANGED builderVars

(* FloodWaveExtractor.get_flood_waves *)
GetFloodWaves ==
    /\ pc = "done"
    /\ sel_call = <<>>
    /\ sel_call' = <<"get_flood_waves">>
    /\ final_pairs' = AllFinalPairs(joined_graph)
    /\ flood_waves' \in WaveChoices(joined_graph, AllFinalPairs(joined_graph))
    /\ sel_value' = [status |-> "returned"]
    /\ UNCHANGED <<pc, sel_graph, sel_view>>
    /\ UNCHANGED prepVars
    /\ UNCHANGED builderVars

(* DiGraph.subgraph(nodes): the nodes of G among nodes and the edges of G   *)
(* between them                                                            *)
Subgraph(G, nodes) ==
    [nodes |-> G.nodes \cap nodes,
     edges |-> {e \in G.edges : e[1] \in nodes /\ e[2] \in nodes}]

(* a variant that leaves out the nodes at end_station                      *)
StartToEndNodesBeforeEnd(G, start_station, end_station, sorted_stations) ==
    LET components == weakly_connected_components(
                          select_only_in_interval(G, start_station, end_station,
                                                  sorted_stations))
        selected == {comp \in components :
                        /\ \E node \in comp : start_station = node[1]
                        /\ \E node \in comp : end_station = node[1]}
    IN  {node \in UNION selected : node[1] # end_station}

(* Selection.select_components_from_start_to_end (the same code is in      *)
(* FloodWaveHandler): the components are those of select_only_in_interval  *)
StartToEndNodes(G, start_station, end_station, sorted_stations) ==
    LET select_all_in_interval == select_only_in_interval(G, start_station, end_station,
                                                          sorted_stations)
        components == weakly_connected_components(select_all_in_interval)
        selected == {comp \in components :
                        /\ \E node \in comp : start_station = node[1]
                        /\ \E node \in comp : end_station = node[1]}
    IN  UNION selected

select_components_from_start_to_end(G, start_station, end_station, sorted_stations) ==
    Subgraph(G, StartToEndNodes(G, start_station, end_station, sorted_stations))

(* joined_graph.subgraph returns a view: sel_graph holds what the view     *)
(* shows when it is returned                                               *)
SelectComponentsFromStartToEnd ==
    /\ pc = "done"
    /\ sel_call = <<>>
    /\ \E start_station \in StationIds, end_station \in StationIds,
          sorted_stations \in OrderedStationLists :
          /\ sel_call' = <<"select_components_from_start_to_end", start_station,
                           end_station, sorted_stations>>
          /\ sel_graph' = select_components_from_start_to_end(joined_graph, start_station,
                                                              end_station, sorted_stations)
    /\ sel_value' = [status |-> "returned"]
    /\ sel_view' = TRUE
    /\ UNCHANGED <<pc, final_pairs, flood_waves>>
    /\ UNCHANGED prepVars
    /\ UNCHANGED builderVars

(* Selection.select_by_water_level.  node_colors[idx of the node in        *)
(* positions] is written colors[node]; "for x, y in start_end" unpacks     *)
(* every wave of fwe.flood_waves into two names and raises ValueError for  *)
(* a wave of another length; nx.shortest_path(x, y) of a wave of two nodes *)
(* is the wave itself.                                                     *)
HeightColor(height) == IF height = "high" THEN "red" ELSE "yellow"

WaveNodes(wave) == {wave[i] : i \in 1..Len(wave)}

WavesKept(waves, station, colors, c) ==
    {wave \in waves :
        /\ \E i \in WaveNodes(wave) : station = i[1]
        /\ \E elem \in {i \in WaveNodes(wave) : station = i[1]} : c = colors[elem]}

select_by_water_level(G, waves, station, colors, height) ==
    DiGraphOf(nodes_and_edges({WaveNodes(wave) :
                                  wave \in WavesKept(waves, station, colors,
                                                     HeightColor(height))},
                              G.edges))

(* the colourings of the nodes passed as positions and node_colors: at     *)
(* most SelMaxRed nodes are red                                            *)
SelMaxRed == 1

NodeColorings ==
    {[n \in SelNodes |-> IF n \in R THEN "red" ELSE "yellow"] :
        R \in SubsetsUpTo(SelNodes, SelMaxRed)}

SelectByWaterLevel ==
    /\ pc = "done"
    /\ sel_call = <<>>
    /\ \E station \in StationIds, height \in {"high", "low", "medium"},
          colors \in NodeColorings :
          /\ sel_call' = <<"select_by_water_level", station, height, colors>>
          /\ IF height \notin {"high", "low"}
             THEN /\ sel_value' = [status |-> "raised", exception |-> "Exception"]
                  /\ UNCHANGED <<sel_graph, final_pairs, flood_waves>>
             ELSE /\ final_pairs' = AllFinalPairs(joined_graph)
                  /\ flood_waves' \in WaveChoices(joined_graph, AllFinalPairs(joined_graph))
                  /\ IF \E wave \in flood_waves' : Len(wave) # 2
                     THEN /\ sel_value' = [status |-> "raised", exception |-> "ValueError"]
                          /\ UNCHANGED sel_graph
                     ELSE /\ sel_value' = [status |-> "returned"]
                          /\ sel_graph' = select_by_water_level(joined_graph, flood_waves',
                                                                station, colors, height)
    /\ UNCHANGED <<pc, sel_view>>
    /\ UNCHANGED prepVars
    /\ UNCHANGED builderVars

NextSelect ==
    SelectByStation \/ SelectIntersectingWithInterval \/ SelectOnlyInInterval
        \/ GetFloodWaves \/ SelectComponentsFromStartToEnd \/ SelectByWaterLevel

(* A joined graph as read back from whole_graph/joined_graph.gpickle; the  *)
(* selection reads nothing else.                                           *)
InitJoined(graphs) ==
    /\ all_gauges = MetaGauges
    /\ gauges = all_gauges
    /\ data = [g \in StationIds |-> [d \in 1..SelMaxDate |-> 0]]
    /\ delta = 1
    /\ life = [g \in StationIds |-> [start |-> 0, end |-> SelMaxDate + 1]]
    /\ backward_dict = [g \in StationIds |-> SelMaxDate]
    /\ forward_dict = [g \in StationIds |-> SelMaxDate]
    /\ start_date = 1
    /\ end_date = SelMaxDate
    /\ cut_dates = <<1, SelMaxDate>>
    /\ idx = 1
    /\ pc = "done"
    /\ vertex_files = [g \in StationIds |-> EmptyDict]
    /\ edge_files = [p \in StationIds \X StationIds |-> EmptyDict]
    /\ vertex_pairs_keys = <<>>
    /\ vertex_pairs = [p \in StationIds \X StationIds |-> EmptyDict]
    /\ gauge_ts = [g \in StationIds |-> <<>>]
    /\ gauge_days = [g \in StationIds |-> <<>>]
    /\ local_peak_values = [g \in StationIds |-> <<>>]
    /\ found = [peaks |-> [g \in StationIds |-> {}],
                edges |-> [p \in StationIds \X StationIds |-> {}]]
    /\ tree_g = EmptyGraph
    /\ path = EmptyDict
    /\ all_paths = EmptyDict
    /\ wave_serial_number = 0
    /\ branches = <<>>
    /\ flood_wave = EmptyDict
    /\ root_i = 0
    /\ call = <<>>
    /\ build_files = EmptyDict
    /\ joined_graph \in graphs
    /\ InitSelection

InitSelect == InitJoined(SelGraphs)

SpecSelect == InitSelect /\ [][NextSelect]_vars

----------------------------------------------------------------------------
(* C8: after get_flood_waves, the candidate pairs are the pairs of a node  *)
(* without incoming edge and a node without outgoing edge of one component *)
(* with the first at a larger river km than the second, and the waves      *)
(* emitted join exactly the candidate pairs that have a directed path.     *)
SameComponent(G, s, t) == t \in WeakClosure(G, {s})

RiverKmPairs(G) ==
    {st \in G.nodes \X G.nodes :
        /\ SameComponent(G, st[1], st[2])
        /\ InDegree(G, st[1]) = 0
        /\ OutDegree(G, st[2]) = 0
        /\ river_kms[st[1][1]] > river_kms[st[2][1]]}

WaveEnds == {<<w[1], w[Len(w)]>> : w \in flood_waves}

C8_PairsByRiverKm ==
    (sel_call # <<>> /\ sel_call[1] = "get_flood_waves") =>
        /\ final_pairs = RiverKmPairs(joined_graph)
        /\ WaveEnds = {st \in RiverKmPairs(joined_graph) :
                          HasPath(joined_graph, st[1], st[2])}

(* What get_final_pairs does: the candidate pairs are ordered by station   *)
(* id, and the waves emitted join the candidate pairs that have a path.    *)
StationIdPairs(G) ==
    {st \in G.nodes \X G.nodes :
        /\ SameComponent(G, st[1], st[2])
        /\ InDegree(G, st[1]) = 0
        /\ OutDegree(G, st[2]) = 0
        /\ st[1][1] > st[2][1]}

C8_PairsByStationId ==
    (sel_call # <<>> /\ sel_call[1] = "get_flood_waves") =>
        /\ final_pairs = StationIdPairs(joined_graph)
        /\ WaveEnds = {st \in StationIdPairs(joined_graph) :
                          HasPath(joined_graph, st[1], st[2])}

(* C9: select_only_in_interval keeps the nodes of the components that     *)
(* have a node at a station of the closed interval, without the nodes at   *)
(* stations outside the interval, and the edges of the graph between the   *)
(* nodes kept.                                                             *)
ClosedInterval(sorted_stations, s_start, s_end) ==
    {sorted_stations[i] : i \in {j \in 1..Len(sorted_stations) :
        /\ IndexOf(sorted_stations, s_start) <= j
        /\ j <= IndexOf(sorted_stations, s_end)}}

C9_OnlyInInterval ==
    (sel_call # <<>> /\ sel_call[1] = "select_only_in_interval") =>
        LET H == joined_graph
            I == ClosedInterval(sel_call[4], sel_call[2], sel_call[3])
            kept == {n \in H.nodes :
                        /\ n[1] \in I
                        /\ \E m \in H.nodes : m[1] \in I /\ SameComponent(H, n, m)}
        IN  /\ sel_graph.nodes = kept
            /\ sel_graph.edges = {e \in H.edges : e[1] \in kept /\ e[2] \in kept}

(* a call on an interval of several stations that cuts a component: an     *)
(* edge is kept and an edge to a node outside the interval is lost         *)
C9_Witness ==
    /\ sel_call # <<>>
    /\ sel_call[1] = "select_only_in_interval"
    /\ \E e \in joined_graph.edges : e[1] \in sel_graph.nodes /\ e[2] \notin sel_graph.nodes
    /\ sel_graph.edges # {}
    /\ sel_call[2] # sel_call[3]

(* C10: select_by_station returns the nodes and the edges of the           *)
(* components that have a node at the station, and nothing else.           *)
C10_ByStation ==
    (sel_call # <<>> /\ sel_call[1] = "select_by_station") =>
        LET H == joined_graph
            kept == {n \in H.nodes :
                        \E m \in H.nodes : m[1] = sel_call[2] /\ SameComponent(H, n, m)}
        IN  /\ sel_graph.nodes = kept
            /\ sel_graph.edges = {e \in H.edges : e[1] \in kept /\ e[2] \in kept}

(* a call that keeps a component with an edge and drops another one *)
C10_Witness ==
    /\ sel_call # <<>>
    /\ sel_call[1] = "select_by_station"
    /\ sel_graph.edges # {}
    /\ joined_graph.edges \ sel_graph.edges # {}
    /\ \E n \in sel_graph.nodes : n[1] # sel_call[2]

----------------------------------------------------------------------------
(* C11: the start-to-end selection returns the nodes of the components of  *)
(* the input graph that have a node at the start station and a node at the *)
(* end station, all of them, and no other node.                            *)
HasStation(G, n, s) == \E m \in G.nodes : m[1] = s /\ SameComponent(G, n, m)

C11_StartToEndComponents ==
    (sel_call # <<>> /\ sel_call[1] = "select_components_from_start_to_end") =>
        sel_graph.nodes =
            {n \in joined_graph.nodes :
                /\ HasStation(joined_graph, n, sel_call[2])
                /\ HasStation(joined_graph, n, sel_call[3])}

(* What the selection returns: the same for the graph cut to the stations  *)
(* of the interval by select_only_in_interval, with the edges of the input *)
(* between the nodes kept.                                                 *)
C11_StartToEndOfInterval ==
    (sel_call # <<>> /\ sel_call[1] = "select_components_from_start_to_end") =>
        LET R == select_only_in_interval(joined_graph, sel_call[2], sel_call[3],
                                         sel_call[4])
            kept == {n \in R.nodes :
                        HasStation(R, n, sel_call[2]) /\ HasStation(R, n, sel_call[3])}
        IN  /\ sel_graph.nodes = kept
            /\ sel_graph.edges =
                   {e \in joined_graph.edges : e[1] \in kept /\ e[2] \in kept}

----------------------------------------------------------------------------
(* C12: select_by_water_level with height "high" or "low" returns, for     *)
(* every graph, exactly the nodes of the components that have a node at    *)
(* the station whose colour is the one of the height; any other height is  *)
(* rejected with an exception.                                             *)
LevelNodes(G, station, colors, c) ==
    {n \in G.nodes :
        \E m \in G.nodes : m[1] = station /\ colors[m] = c /\ SameComponent(G, n, m)}

C12_ByWaterLevel ==
    (sel_call # <<>> /\ sel_call[1] = "select_by_water_level") =>
        IF sel_call[3] \in {"high", "low"}
        THEN /\ sel_value.status = "returned"
             /\ sel_graph.nodes = LevelNodes(joined_graph, sel_call[2], sel_call[4],
                                             HeightColor(sel_call[3]))
        ELSE sel_value.status = "raised"

(* Filtering.filter_by_water_level (src/src/filtering/filtering.py), the   *)
(* older function on components                                            *)
filter_by_water_level(G, gauge, colors, height) ==
    LET comps == {comp \in weakly_connected_components(G) :
                     /\ \E i \in comp : gauge = i[1]
                     /\ \E elem \in {i \in comp : gauge = i[1]} :
                            HeightColor(height) = colors[elem]}
    IN  DiGraphOf(nodes_and_edges(comps, G.edges))

(* The older function returns the components of the statement. *)
C12_FilterByWaterLevel ==
    (sel_call # <<>> /\ sel_call[1] = "select_by_water_level"
        /\ sel_call[3] \in {"high", "low"}) =>
        filter_by_water_level(joined_graph, sel_call[2], sel_call[4], sel_call[3]).nodes
            = LevelNodes(joined_graph, sel_call[2], sel_call[4], HeightColor(sel_call[3]))

----------------------------------------------------------------------------
(* The caller changes the input graph after a selection has returned       *)
(* (DiGraph.remove_edge, DiGraph.remove_node).  A graph returned by        *)
(* DiGraph.subgraph is a view: it shows the nodes it was given that the    *)
(* input graph has now, and the edges the input graph has now between them.*)

ReturnedGraph == IF sel_view THEN Subgraph(joined_graph, sel_graph.nodes) ELSE sel_graph

SelectionNames ==
    {"select_by_station", "select_intersecting_with_interval", "select_only_in_interval",
     "select_by_water_level", "select_components_from_start_to_end"}

ChangeInput ==
    /\ pc = "done"
    /\ sel_call # <<>>
    /\ sel_call[1] \in SelectionNames
    /\ \/ \E e \in joined_graph.edges :
             joined_graph' = [joined_graph EXCEPT !.edges = joined_graph.edges \ {e}]
       \/ \E n \in joined_graph.nodes : joined_graph' = RemoveNodes(joined_graph, {n})
    /\ pc' = "input_changed"
    /\ UNCHANGED <<tree_g, path, all_paths, wave_serial_number, branches, flood_wave,
                   root_i, call, build_files>>
    /\ UNCHANGED <<data, delta, life, backward_dict, forward_dict, all_gauges, gauges,
                   start_date, end_date, cut_dates, idx, vertex_files, edge_files,
                   vertex_pairs_keys, vertex_pairs, gauge_ts, gauge_days, local_peak_values,
                   found>>
    /\ UNCHANGED selVars

AliasMaxEdges == 2

AliasGraphs == {G \in SelGraphs : Cardinality(G.edges) <= AliasMaxEdges}

InitAlias == InitJoined(AliasGraphs)

NextAlias == NextSelect \/ ChangeInput

SpecAlias == InitAlias /\ [][NextAlias]_vars

(* C13: a selection does not change its input graph, and the graph it has  *)
(* returned does not change when the input graph is changed afterwards.    *)
C13_InputKeptAndResultIndependent ==
    [][/\ (sel_call = <<>> /\ sel_call' # <<>>) => joined_graph' = joined_graph
       /\ (pc = "done" /\ pc' = "input_changed") => ReturnedGraph' = ReturnedGraph]_vars

(* The same for the selections that build a new DiGraph: all but the       *)
(* start-to-end selection.                                                 *)
C13_CopiesAreIndependent ==
    [][/\ (sel_call = <<>> /\ sel_call' # <<>>) => joined_graph' = joined_graph
       /\ (pc = "done" /\ pc' = "input_changed"
              /\ sel_call[1] # "select_components_from_start_to_end") =>
             ReturnedGraph' = ReturnedGraph]_vars

----------------------------------------------------------------------------
(* the selection of the call sel_call, applied to the graph G              *)
SelectionOf(G) ==
    CASE sel_call[1] = "select_by_station" -> select_by_station(G, sel_call[2])
      [] sel_call[1] = "select_intersecting_with_interval" ->
            select_intersecting_with_interval(G, sel_call[2], sel_call[3], sel_call[4])
      [] sel_call[1] = "select_only_in_interval" ->
            select_only_in_interval(G, sel_call[2], sel_call[3], sel_call[4])
      [] sel_call[1] = "select_components_from_start_to_end" ->
            select_components_from_start_to_end(G, sel_call[2], sel_call[3], sel_call[4])

IdempotentNames ==
    {"select_by_station", "select_intersecting_with_interval", "select_only_in_interval",
     "select_components_from_start_to_end"}

(* C14: select_by_station, select_intersecting_with_interval,              *)
(* select_only_in_interval and the start-to-end selection, applied with    *)
(* the same arguments to their own result, return that result.             *)
C14_SelectionIdempotent ==
    (sel_call # <<>> /\ sel_call[1] \in IdempotentNames) =>
        SelectionOf(sel_graph) = sel_graph

(* a start-to-end selection that returned a proper, non-empty part of the  *)
(* input graph                                                             *)
C14_Witness ==
    /\ sel_call # <<>>
    /\ sel_call[1] = "select_components_from_start_to_end"
    /\ sel_graph.edges # {}
    /\ sel_graph.nodes # joined_graph.nodes
    /\ SelectionOf(sel_graph) = sel_graph

----------------------------------------------------------------------------
(* FloodWaveExtractor: the lists of all shortest paths.                    *)

(* a variant that takes the pairs with the smaller station id first        *)
get_flood_waves_without_equivalence_ascending(G) ==
    LET pairs == {xy \in G.nodes \X G.nodes :
                     /\ xy[2] \in WeakClosure(G, {xy[1]})
                     /\ InDegree(G, xy[1]) = 0
                     /\ OutDegree(G, xy[2]) = 0
                     /\ xy[1][1] < xy[2][1]}
    IN  {ShortestPaths(G, p[1], p[2], 0) : p \in pairs} \ {{}}

(* FloodWaveExtractor.get_flood_waves_without_equivalence: for every final *)
(* pair that has a path the list of all its shortest paths                 *)
get_flood_waves_without_equivalence(G) ==
    {ShortestPaths(G, p[1], p[2], 0) : p \in AllFinalPairs(G)} \ {{}}

(* FloodWaveExtractor.get_flood_waves_from_start_to_end, equivalence=False *)
(* (the paths of one list share their first and their last node) and       *)
(* equivalence=True                                                        *)
get_flood_waves_from_start_to_end(waves, start_station, end_station, equivalence) ==
    IF equivalence
    THEN {wave \in waves : start_station = wave[1][1] /\ end_station = wave[Len(wave)][1]}
    ELSE {paths \in waves :
             \E first \in paths :
                 start_station = first[1][1] /\ end_station = first[Len(first)][1]}

(* the calls of FloodWaveExtractor.get_flood_waves_without_equivalence     *)
GetFloodWavesWithoutEquivalence ==
    /\ pc = "done"
    /\ sel_call = <<>>
    /\ sel_call' = <<"get_flood_waves_without_equivalence">>
    /\ final_pairs' = AllFinalPairs(joined_graph)
    /\ flood_waves' = get_flood_waves_without_equivalence(joined_graph)
    /\ sel_value' = [status |-> "returned"]
    /\ UNCHANGED <<pc, sel_graph, sel_view>>
    /\ UNCHANGED prepVars
    /\ UNCHANGED builderVars

----------------------------------------------------------------------------
(* GraphAnalysis: queries on a joined graph.                               *)

(* GraphAnalysis.get_flood_waves: the candidate nodes of a component have  *)
(* no incoming or no outgoing edge, and the pairs are ordered by           *)
(* float(x[0]) > float(y[0]), the station ids.                             *)
possible_end_nodes(G, comp) ==
    {node \in comp : InDegree(G, node) = 0 \/ OutDegree(G, node) = 0}

cartesian_pairs(G, comp) == possible_end_nodes(G, comp) \X possible_end_nodes(G, comp)

GraphAnalysisFinalPairs(G) ==
    UNION {{xy \in cartesian_pairs(G, comp) : xy[1][1] > xy[2][1]} :
              comp \in weakly_connected_components(G)}

(* the wave lists GraphAnalysis.get_flood_waves can return *)
GraphAnalysisFloodWaves(G) == WaveChoices(G, GraphAnalysisFinalPairs(G))

(* stations of the nodes of a wave, and the slice                          *)
(* fw[stations.index(start_station):stations.index(end_station)+1]         *)
StationsOf(fw) == [i \in 1..Len(fw) |-> fw[i][1]]

Interval(fw, start_station, end_station) ==
    LET a == IndexOf(StationsOf(fw), start_station)
        b == IndexOf(StationsOf(fw), end_station)
    IN  IF a <= b THEN SubSeq(fw, a, b) ELSE <<>>

(* GraphAnalysis.count_waves on the wave list returned by get_flood_waves  *)
count_waves(waves, start_station, end_station) ==
    LET selected == {fw \in waves :
                        /\ \E i \in 1..Len(fw) : start_station = fw[i][1]
                        /\ \E i \in 1..Len(fw) : end_station = fw[i][1]}
        only_one == {Interval(fw, start_station, end_station) : fw \in selected}
    IN  Cardinality(only_one)

CountWaves ==
    /\ pc = "done"
    /\ sel_call = <<>>
    /\ \E start_station \in StationIds, end_station \in StationIds :
          /\ sel_call' = <<"count_waves", start_station, end_station>>
          /\ final_pairs' = GraphAnalysisFinalPairs(joined_graph)
          /\ flood_waves' \in GraphAnalysisFloodWaves(joined_graph)
          /\ sel_value' = [status |-> "returned",
                           value |-> count_waves(flood_waves', start_station, end_station)]
    /\ UNCHANGED <<pc, sel_graph, sel_view>>
    /\ UNCHANGED prepVars
    /\ UNCHANGED builderVars

(* DiGraph.to_undirected: every edge can be walked both ways *)
to_undirected(G) ==
    [nodes |-> G.nodes, edges |-> G.edges \cup {<<e[2], e[1]>> : e \in G.edges}]

(* gauges[start_index:end_index + 1] *)
GaugeSlice(gauge_list, start_station, end_station) ==
    LET start_index == IndexOf(gauge_list, start_station)
        end_index == IndexOf(gauge_list, end_station)
    IN  IF start_index <= end_index THEN SubSeq(gauge_list, start_index, end_index) ELSE <<>>

(* the connected components of the subgraph on the nodes at the gauges of  *)
(* the slice that have at least two nodes                                  *)
UnfinishedComponents(G, gauge_slice) ==
    LET nodes == {node \in G.nodes : node[1] \in SeqToSet(gauge_slice)}
    IN  {comp \in weakly_connected_components(Subgraph(G, nodes)) : Cardinality(comp) >= 2}

(* component_gauges_ordered[-1]: the last gauge of the slice that has a    *)
(* node in the component                                                   *)
LastComponentGauge(comp, gauge_slice) ==
    LET present(x) == \E node \in comp : node[1] = x
        component_gauges_ordered == SelectSeq(gauge_slice, present)
    IN  component_gauges_ordered[Len(component_gauges_ordered)]

(* the (start_node, end_node) pairs whose paths are counted *)
UnfinishedPairs(G, gauge_slice, start_station, end_station) ==
    UNION {{se \in comp \X comp :
               /\ se[1][1] = start_station
               /\ se[2][1] = LastComponentGauge(comp, gauge_slice)
               /\ se[2][1] # end_station} :
           comp \in UnfinishedComponents(G, gauge_slice)}

(* len(paths) of nx.all_shortest_paths on the undirected graph, summed     *)
RECURSIVE SumShortestPaths(_, _)
SumShortestPaths(U, pairs) ==
    IF pairs = {} THEN 0
    ELSE LET se == CHOOSE x \in pairs : TRUE
         IN  Cardinality(ShortestPaths(U, se[1], se[2], 0))
                 + SumShortestPaths(U, pairs \ {se})

count_unfinished_waves(G, gauge_list, start_station, end_station) ==
    SumShortestPaths(to_undirected(G),
                     UnfinishedPairs(G, GaugeSlice(gauge_list, start_station, end_station),
                                     start_station, end_station))

CountUnfinishedWaves ==
    /\ pc = "done"
    /\ sel_call = <<>>
    /\ \E start_station \in StationIds, end_station \in StationIds,
          gauge_list \in OrderedStationLists :
          /\ sel_call' = <<"count_unfinished_waves", start_station, end_station, gauge_list>>
          /\ sel_value' = [status |-> "returned",
                           value |-> count_unfinished_waves(joined_graph, gauge_list,
                                                            start_station, end_station)]
    /\ UNCHANGED <<pc, sel_graph, sel_view, final_pairs, flood_waves>>
    /\ UNCHANGED prepVars
    /\ UNCHANGED builderVars

(* connected_components_iter with the func of propagation_time: the pairs  *)
(* of a start node and an end node of one component that nx.shortest_path  *)
(* joins                                                                   *)
PropPairs(G, start_station, end_station) ==
    UNION {{se \in comp \X comp :
               /\ se[1][1] = start_station
               /\ se[2][1] = end_station
               /\ ShortestPaths(G, se[1], se[2], 0) # {}} :
           comp \in weakly_connected_components(G)}

(* sum(prop_times_total) and len(prop_times_total), a day difference       *)
(* (end_date - start_date).days for every pair                             *)
RECURSIVE SumDays(_)
SumDays(pairs) ==
    IF pairs = {} THEN 0
    ELSE LET se == CHOOSE x \in pairs : TRUE
         IN  (se[2][2] - se[1][2]) + SumDays(pairs \ {se})

(* a variant that appends a day difference for every shortest path         *)
RECURSIVE SumDaysOfPaths(_, _)
SumDaysOfPaths(G, pairs) ==
    IF pairs = {} THEN [sum |-> 0, len |-> 0]
    ELSE LET se == CHOOSE x \in pairs : TRUE
             k == Cardinality(ShortestPaths(G, se[1], se[2], 0))
             rest == SumDaysOfPaths(G, pairs \ {se})
         IN  [sum |-> (se[2][2] - se[1][2]) * k + rest.sum, len |-> k + rest.len]

prop_times_total_weighted(G, start_station, end_station) ==
    SumDaysOfPaths(G, PropPairs(G, start_station, end_station))

prop_times_total(G, start_station, end_station) ==
    LET pairs == PropPairs(G, start_station, end_station)
    IN  [sum |-> SumDays(pairs), len |-> Cardinality(pairs)]

(* GraphAnalysis.propagation_time: the average as the fraction <<sum, len>>,*)
(* the value 0 as <<0, 1>>                                                 *)
propagation_time(G, start_station, end_station) ==
    LET total == prop_times_total(G, start_station, end_station)
    IN  IF total.sum # 0 THEN <<total.sum, total.len>> ELSE <<0, 1>>

PropagationTime ==
    /\ pc = "done"
    /\ sel_call = <<>>
    /\ \E start_station \in StationIds, end_station \in StationIds :
          /\ sel_call' = <<"propagation_time", start_station, end_station>>
          /\ sel_value' = [status |-> "returned",
                           value |-> propagation_time(joined_graph, start_station,
                                                      end_station)]
    /\ UNCHANGED <<pc, sel_graph, sel_view, final_pairs, flood_waves>>
    /\ UNCHANGED prepVars
    /\ UNCHANGED builderVars

NextAnalysis ==
    \/ CountWaves
    \/ CountUnfinishedWaves
    \/ GetFloodWaves
    \/ GetFloodWavesWithoutEquivalence
    \/ PropagationTime

(* The graphs of the queries: at most AnalysisMaxEdges edges, enough for   *)
(* two waves that share a node and have two equally short paths.           *)
AnalysisMaxEdges == 5

AnalysisGraphs ==
    {[nodes |-> EndpointsOf(E) \cup I, edges |-> E] :
        E \in SubsetsUpTo(SelEdgeCells, AnalysisMaxEdges),
        I \in SubsetsUpTo(SelNodes, SelMaxIsolated)}

InitAnalysis == InitJoined(AnalysisGraphs)

SpecAnalysis == InitAnalysis /\ [][NextAnalysis]_vars

(* the components of G that have a node at s_start and a node at s_end     *)
FullFromStartToEnd(G, s_start, s_end) ==
    Subgraph(G, {n \in G.nodes : HasStation(G, n, s_start) /\ HasStation(G, n, s_end)})

(* one wave for every source-sink pair joined by a path, the source        *)
(* upstream of the sink, the source at s_start and the sink at s_end       *)
FullWavePairs(G, s_start, s_end) ==
    {st \in RiverKmPairs(FullFromStartToEnd(G, s_start, s_end)) :
        /\ HasPath(G, st[1], st[2])
        /\ st[1][1] = s_start
        /\ st[2][1] = s_end}

(* C15: count_waves(H, s_start, s_end) is the number of collapsed waves of *)
(* the start-to-end selection of H that start at s_start and end at s_end; *)
(* a wave that only passes through s_start or s_end is not counted.        *)
C15_CountWaves ==
    (sel_call # <<>> /\ sel_call[1] = "count_waves") =>
        sel_value.value = Cardinality(FullWavePairs(joined_graph, sel_call[2], sel_call[3]))

(* the directed paths from s to t *)
DirectedPaths(G, s, t) == UNION {PathsOfLen(G, s, t, n) : n \in 0..Cardinality(G.nodes)}

(* In H restricted to the stations of the interval: the pairs of a node at *)
(* s_start and a node without continuation at a station strictly upstream *)
(* of s_end that a directed path joins.                                    *)
StoppedBefore(G, s_start, s_end, sorted_stations) ==
    LET R == select_only_in_interval(G, s_start, s_end, sorted_stations)
    IN  {st \in R.nodes \X R.nodes :
            /\ st[1][1] = s_start
            /\ OutDegree(R, st[2]) = 0
            /\ river_kms[st[2][1]] > river_kms[s_end]
            /\ HasPath(R, st[1], st[2])}

RECURSIVE SumDirectedPaths(_, _)
SumDirectedPaths(G, pairs) ==
    IF pairs = {} THEN 0
    ELSE LET st == CHOOSE x \in pairs : TRUE
         IN  Cardinality(DirectedPaths(G, st[1], st[2])) + SumDirectedPaths(G, pairs \ {st})

(* C16: count_unfinished_waves(H, s_start, s_end) is the number of waves   *)
(* of H restricted to the stations between s_start and s_end that start at *)
(* a node of s_start and end at a node without continuation strictly       *)
(* upstream of s_end, every such branch counted: at least one for every    *)
(* pair of a start and a proper end, at most one for every directed path   *)
(* between such a pair.                                                    *)
C16_CountUnfinishedWaves ==
    (sel_call # <<>> /\ sel_call[1] = "count_unfinished_waves" /\ sel_call[4] = MetaGauges) =>
        LET pairs == StoppedBefore(joined_graph, sel_call[2], sel_call[3], sel_call[4])
            R == select_only_in_interval(joined_graph, sel_call[2], sel_call[3], sel_call[4])
        IN  /\ Cardinality({st \in pairs : st[1] # st[2]}) <= sel_value.value
            /\ sel_value.value <= SumDirectedPaths(R, pairs)

(* C17: for a fixed graph and fixed stations the value of count_waves does *)
(* not depend on which of several equally short paths nx.shortest_path     *)
(* returns for a pair: every wave list get_flood_waves can return gives    *)
(* the value that was returned.                                            *)
C17_CountIndependentOfPathChoice ==
    (sel_call # <<>> /\ sel_call[1] = "count_waves") =>
        \A waves \in GraphAnalysisFloodWaves(joined_graph) :
            count_waves(waves, sel_call[2], sel_call[3]) = sel_value.value

(* With the stations of the first and of the last node of the waves the    *)
(* count is the same for every choice of paths.                            *)
C17_CountBetweenWaveEnds ==
    (sel_call # <<>> /\ sel_call[1] = "count_waves") =>
        \A waves \in GraphAnalysisFloodWaves(joined_graph) :
            \A s \in StationIds, e \in StationIds :
                (\A fw \in waves \cup flood_waves :
                     (\E i \in 1..Len(fw) : fw[i][1] = s) /\ (\E i \in 1..Len(fw) : fw[i][1] = e)
                         => (fw[1][1] = s /\ fw[Len(fw)][1] = e))
                    => count_waves(waves, s, e) = count_waves(flood_waves, s, e)

----------------------------------------------------------------------------
(* SlopeCalculator: the slopes attached to the edges of a gauge pair.      *)
(* A slope is kept as the fraction <<level_diff, distance>>.               *)

SlopeMaxLevel == 2
SlopeMaxNull == 1
SlopeMaxNext == 2

(* preprocess_for_get_slopes: distance = next_river_km - current_river_km  *)
distance(current_gauge, next_gauge) == river_kms[next_gauge] - river_kms[current_gauge]

(* get_slopes: (next level + next null point) - (current level + current   *)
(* null point) for every next date, each divided by the distance           *)
level_diff(current_water_level, next_water_level, current_null, next_null) ==
    (next_water_level + next_null) - (current_water_level + current_null)

get_slopes(current_gauge, next_gauge, current_water_level, next_water_levels, current_null, next_null) ==
    [i \in 1..Len(next_water_levels) |->
        <<level_diff(current_water_level, next_water_levels[i], current_null, next_null),
          distance(current_gauge, next_gauge)>>]

SlopeLevels == 0..SlopeMaxLevel

SlopeNulls == 0..SlopeMaxNull

NextWaterLevels == UNION {[1..n -> SlopeLevels] : n \in 1..SlopeMaxNext}

(* the slopes of the peak of current_gauge and the peaks found for it at   *)
(* next_gauge, a gauge downstream of it                                    *)
GetSlopes ==
    /\ pc = "done"
    /\ sel_call = <<>>
    /\ \E gp \in DownPairs, current_water_level \in SlopeLevels,
          next_water_levels \in NextWaterLevels,
          current_null \in SlopeNulls, next_null \in SlopeNulls :
          /\ sel_call' = <<"get_slopes", gp[1], gp[2], current_water_level,
                           next_water_levels, current_null, next_null>>
          /\ sel_value' = [status |-> "returned",
                           value |-> get_slopes(gp[1], gp[2], current_water_level,
                                                next_water_levels, current_null, next_null)]
    /\ UNCHANGED <<pc, sel_graph, sel_view, final_pairs, flood_waves>>
    /\ UNCHANGED prepVars
    /\ UNCHANGED builderVars

InitSlope == InitJoined({EmptyGraph})

NextSlope == GetSlopes

SpecSlope == InitSlope /\ [][NextSlope]_vars

(* C18: the slope recorded for an edge from a peak at u to a peak at v is  *)
(* (level(v) - level(u)) / (river_km(u) - river_km(v)), the levels taken   *)
(* with the null points as get_slopes takes them, and the denominator used *)
(* is strictly positive.                                                   *)
C18_SlopeByRiverKm ==
    (sel_call # <<>> /\ sel_call[1] = "get_slopes") =>
        \A i \in 1..Len(sel_value.value) :
            LET slope == sel_value.value[i]
                u == sel_call[2]
                v == sel_call[3]
                level_u == sel_call[4] + sel_call[6]
                level_v == sel_call[5][i] + sel_call[7]
            IN  /\ slope[2] > 0
                /\ slope[1] * (river_kms[u] - river_kms[v]) = (level_v - level_u) * slope[2]

(* What is recorded: the same difference of levels divided by              *)
(* river_km(v) - river_km(u), which is strictly negative.                  *)
C18_SlopeByNegativeDistance ==
    (sel_call # <<>> /\ sel_call[1] = "get_slopes") =>
        \A i \in 1..Len(sel_value.value) :
            LET slope == sel_value.value[i]
                u == sel_call[2]
                v == sel_call[3]
                level_u == sel_call[4] + sel_call[6]
                level_v == sel_call[5][i] + sel_call[7]
            IN  /\ slope[2] < 0
                /\ slope[1] * (river_kms[v] - river_kms[u]) = (level_v - level_u) * slope[2]

----------------------------------------------------------------------------
(* Flood maps.                                                             *)

(* Selection.select_full_from_start_to_end is called by FloodMapCreator    *)
(* and is not part of the sources: the components that have a node at      *)
(* start_station and a node at end_station are kept whole.                 *)
select_full_from_start_to_end(G, start_station, end_station, sorted_stations) ==
    Subgraph(G, UNION {comp \in weakly_connected_components(G) :
                          /\ \E node \in comp : node[1] = start_station
                          /\ \E node \in comp : node[1] = end_station})

(* river_sections: zip(river_section_stations, river_section_stations[1:]) *)
river_sections(river_section_stations) ==
    {<<river_section_stations[k], river_section_stations[k + 1]>> :
        k \in 1..(Len(river_section_stations) - 1)}

(* FloodMapCreator.create_flood_map: the weighted edges added to flood_map *)
SectionEdges(G, section, sorted_stations) ==
    LET full_from_start_to_end == select_full_from_start_to_end(G, section[1], section[2],
                                                                sorted_stations)
        classes == get_flood_waves_without_equivalence(full_from_start_to_end)
        full_waves == get_flood_waves_from_start_to_end(classes, section[1], section[2], FALSE)
        start_node(paths) == (CHOOSE q \in paths : TRUE)[1]
        end_node(paths) == LET q == CHOOSE r \in paths : TRUE IN q[Len(q)]
    IN  {<<start_node(paths), end_node(paths), Cardinality(paths)>> : paths \in full_waves}

create_flood_map(G, river_section_stations, sorted_stations) ==
    UNION {SectionEdges(G, section, sorted_stations) :
              section \in river_sections(river_section_stations)}

(* GraphAnalysis.create_flood_map: for the start nodes and end nodes of    *)
(* every component, an edge weighted with the number of shortest paths     *)
GraphAnalysisSectionEdges(G, section) ==
    UNION {{<<se[1], se[2], Cardinality(ShortestPaths(G, se[1], se[2], 0))>> :
               se \in {x \in comp \X comp :
                          /\ x[1][1] = section[1]
                          /\ x[2][1] = section[2]
                          /\ ShortestPaths(G, x[1], x[2], 0) # {}}} :
           comp \in weakly_connected_components(G)}

GraphAnalysis_create_flood_map(G, river_section_gauges) ==
    UNION {GraphAnalysisSectionEdges(G, section) : section \in river_sections(river_section_gauges)}

MapMaxStations == 3

SectionStationLists == UNION {[1..n -> StationIds] : n \in 0..MapMaxStations}

CreateFloodMap ==
    /\ pc = "done"
    /\ sel_call = <<>>
    /\ \E river_section_stations \in SectionStationLists :
          /\ sel_call' = <<"FloodMapCreator.create_flood_map", river_section_stations,
                           MetaGauges>>
          /\ sel_value' = [status |-> "returned",
                           value |-> create_flood_map(joined_graph, river_section_stations,
                                                      MetaGauges)]
    /\ UNCHANGED <<pc, sel_graph, sel_view, final_pairs, flood_waves>>
    /\ UNCHANGED prepVars
    /\ UNCHANGED builderVars

GraphAnalysisCreateFloodMap ==
    /\ pc = "done"
    /\ sel_call = <<>>
    /\ \E river_section_gauges \in SectionStationLists :
          /\ sel_call' = <<"GraphAnalysis.create_flood_map", river_section_gauges>>
          /\ sel_value' = [status |-> "returned",
                           value |-> GraphAnalysis_create_flood_map(joined_graph,
                                                                    river_section_gauges)]
    /\ UNCHANGED <<pc, sel_graph, sel_view, final_pairs, flood_waves>>
    /\ UNCHANGED prepVars
    /\ UNCHANGED builderVars

NextFloodMap == CreateFloodMap \/ GraphAnalysisCreateFloodMap

SpecFloodMap == InitSelect /\ [][NextFloodMap]_vars

(* the weighted edges described: a node at a and a node at b for some      *)
(* consecutive pair (a, b) of the endpoints, joined by a directed path     *)
(* (a node is joined to itself), weighted with the number of shortest      *)
(* paths between them                                                      *)
MapEdges(G, endpoints) ==
    {<<st[1], st[2], Cardinality(ShortestPaths(G, st[1], st[2], 0))>> :
        st \in {x \in G.nodes \X G.nodes :
                   /\ <<x[1][1], x[2][1]>> \in river_sections(endpoints)
                   /\ HasPath(G, x[1], x[2])}}

(* C19: the flood map has a weighted edge start_node -> end_node exactly   *)
(* when start_node is at a and end_node at b for a consecutive pair (a, b) *)
(* of the section endpoints and a directed path joins them; the weight is  *)
(* the number of shortest paths; a section without a connected pair adds   *)
(* no edge.                                                                *)
C19_FloodMap ==
    (sel_call # <<>> /\ sel_call[1] = "FloodMapCreator.create_flood_map") =>
        sel_value.value = MapEdges(joined_graph, sel_call[2])

(* The flood map of GraphAnalysis.create_flood_map is the one described.   *)
C19_GraphAnalysisFloodMap ==
    (sel_call # <<>> /\ sel_call[1] = "GraphAnalysis.create_flood_map") =>
        sel_value.value = MapEdges(joined_graph, sel_call[2])

----------------------------------------------------------------------------
(* len(paths) summed over the lists of the expanded extraction *)
RECURSIVE NumberOfPaths(_)
NumberOfPaths(classes) ==
    IF classes = {} THEN 0
    ELSE LET paths == CHOOSE c \in classes : TRUE
         IN  Cardinality(paths) + NumberOfPaths(classes \ {paths})

(* C20: on the same graph the collapsed extraction gives at most as many   *)
(* waves as the expanded extraction gives paths: every pair with a         *)
(* collapsed wave has a non-empty list of shortest paths in expanded mode  *)
(* and the collapsed wave is one of them.                                  *)
C20_CollapsedWithinExpanded ==
    /\ (sel_call # <<>> /\ sel_call[1] = "get_flood_waves") =>
          LET classes == get_flood_waves_without_equivalence(joined_graph)
          IN  /\ Cardinality(flood_waves) <= NumberOfPaths(classes)
              /\ \A wave \in flood_waves :
                    \E paths \in classes :
                        /\ wave \in paths
                        /\ \A q \in paths : q[1] = wave[1] /\ q[Len(q)] = wave[Len(wave)]
    /\ (sel_call # <<>> /\ sel_call[1] = "get_flood_waves_without_equivalence") =>
          \A waves \in WaveChoices(joined_graph, AllFinalPairs(joined_graph)) :
              /\ Cardinality(waves) <= NumberOfPaths(flood_waves)
              /\ \A wave \in waves : \E paths \in flood_waves : wave \in paths

(* one source and one sink joined by two shortest paths: one collapsed     *)
(* wave, two paths                                                         *)
C20_Witness ==
    /\ sel_call # <<>>
    /\ sel_call[1] = "get_flood_waves"
    /\ Cardinality(flood_waves) = 1
    /\ NumberOfPaths(get_flood_waves_without_equivalence(joined_graph)) = 2

----------------------------------------------------------------------------
(* the pairs of a node at s_start and a node at s_end joined by a directed *)
(* path                                                                    *)
ConnectedPairs(G, s_start, s_end) ==
    {se \in G.nodes \X G.nodes :
        se[1][1] = s_start /\ se[2][1] = s_end /\ HasPath(G, se[1], se[2])}

(* C21: propagation_time returns 0 when no node at s_start is joined by a  *)
(* directed path to a node at s_end, and otherwise the arithmetic mean of  *)
(* date(end) - date(start) in days over the connected pairs, every pair    *)
(* counted once.                                                           *)
C21_PropagationTime ==
    (sel_call # <<>> /\ sel_call[1] = "propagation_time") =>
        LET pairs == ConnectedPairs(joined_graph, sel_call[2], sel_call[3])
            avg == sel_value.value
        IN  /\ avg[2] > 0
            /\ pairs = {} => avg[1] = 0
            /\ pairs # {} => avg[1] * Cardinality(pairs) = SumDays(pairs) * avg[2]

(* two connected pairs with different day differences, one of them joined  *)
(* by two shortest paths                                                   *)
C21_Witness ==
    /\ sel_call # <<>>
    /\ sel_call[1] = "propagation_time"
    /\ sel_value.value[1] # 0
    /\ \E p \in ConnectedPairs(joined_graph, sel_call[2], sel_call[3]) :
          /\ Cardinality(ShortestPaths(joined_graph, p[1], p[2], 0)) = 2
          /\ \E q \in ConnectedPairs(joined_graph, sel_call[2], sel_call[3]) :
                q[2][2] - q[1][2] # p[2][2] - p[1][2]

----------------------------------------------------------------------------
(* Velocities.  A velocity is kept as the fraction <<distance, divisor>>.  *)

(* GraphAnalysis.get_branching: nx.dag_to_branching has one tree for every *)
(* node without incoming edge, and the sources of its nodes are that node  *)
(* and the nodes reachable from it.                                        *)
get_branching(G) == {Descendants(G, {root}) : root \in {n \in G.nodes : InDegree(G, n) = 0}}

(* AnalysisHandler.get_start_and_end_node_of_slowest_and_longest_flood_wave*)
(* is called by calculate_all_velocities and is not part of the sources:   *)
(* the first node of the branch and, of its nodes farthest downstream, the *)
(* one with the latest date.                                               *)
get_start_and_end_node_of_slowest_and_longest_flood_wave(branch) ==
    LET start_node == CHOOSE n \in branch :
                          \A other \in branch \ {n} : river_kms[n[1]] > river_kms[other[1]]
        last == {n \in branch : \A other \in branch : river_kms[n[1]] <= river_kms[other[1]]}
        end_node == CHOOSE n \in last : \A other \in last : other[2] <= n[2]
    IN  <<start_node, end_node>>

(* GraphAnalysis.calculate_all_velocities: the velocity of every branch    *)
BranchVelocity(branch) ==
    LET nodes == get_start_and_end_node_of_slowest_and_longest_flood_wave(branch)
        dist == river_kms[nodes[1][1]] - river_kms[nodes[2][1]]
        days == nodes[2][2] - nodes[1][2]
    IN  [start_node |-> nodes[1], end_node |-> nodes[2], days |-> days,
         velocity |-> IF days = 0 THEN <<dist, 1>> ELSE <<dist, days>>]

calculate_all_velocities(G) == {BranchVelocity(branch) : branch \in get_branching(G)}

(* StatisticalAnalysis.calculate_all_velocities: for every component the   *)
(* largest river km at the earliest date, the smallest river km at the     *)
(* latest date, and the distance divided by 24 times the days              *)
SetMax(S) == CHOOSE x \in S : \A y \in S : y <= x

SetMin(S) == CHOOSE x \in S : \A y \in S : x <= y

ComponentVelocity(comp) ==
    LET date_min == SetMin({node[2] : node \in comp})
        date_max == SetMax({node[2] : node \in comp})
        start == SetMax({river_kms[node[1]] : node \in {n \in comp : n[2] = date_min}})
        end == SetMin({river_kms[node[1]] : node \in {n \in comp : n[2] = date_max}})
        days == date_max - date_min
        dist == start - end
    IN  [start |-> start, end |-> end, days |-> days,
         velocity |-> IF days = 0 THEN <<dist, 24>> ELSE <<dist, days * 24>>]

StatisticalAnalysis_calculate_all_velocities(G) ==
    {ComponentVelocity(comp) : comp \in weakly_connected_components(G)}

CalculateAllVelocities ==
    /\ pc = "done"
    /\ sel_call = <<>>
    /\ sel_call' = <<"GraphAnalysis.calculate_all_velocities">>
    /\ sel_value' = [status |-> "returned", value |-> calculate_all_velocities(joined_graph)]
    /\ UNCHANGED <<pc, sel_graph, sel_view, final_pairs, flood_waves>>
    /\ UNCHANGED prepVars
    /\ UNCHANGED builderVars

StatisticalAnalysisCalculateAllVelocities ==
    /\ pc = "done"
    /\ sel_call = <<>>
    /\ sel_call' = <<"StatisticalAnalysis.calculate_all_velocities">>
    /\ sel_value' = [status |-> "returned",
                     value |-> StatisticalAnalysis_calculate_all_velocities(joined_graph)]
    /\ UNCHANGED <<pc, sel_graph, sel_view, final_pairs, flood_waves>>
    /\ UNCHANGED prepVars
    /\ UNCHANGED builderVars

NextVelocity == CalculateAllVelocities \/ StatisticalAnalysisCalculateAllVelocities

SpecVelocity == InitSelect /\ [][NextVelocity]_vars

(* the fraction v is dist / days, or dist itself when days = 0, and it is  *)
(* not negative when days > 0                                              *)
IsVelocity(v, dist, days) ==
    /\ v[2] # 0
    /\ IF days = 0 THEN v[1] = dist * v[2] ELSE v[1] * days = dist * v[2]
    /\ days > 0 => v[1] * v[2] >= 0

(* C22: every velocity is (river_km(station(first)) - river_km(station(    *)
(* last))) / days, the distance itself when days = 0, and it is >= 0 for   *)
(* every wave or component whose day difference is > 0.                    *)
C22_Velocities ==
    /\ (sel_call # <<>> /\ sel_call[1] = "GraphAnalysis.calculate_all_velocities") =>
          \A r \in sel_value.value :
              IsVelocity(r.velocity,
                         river_kms[r.start_node[1]] - river_kms[r.end_node[1]], r.days)
    /\ (sel_call # <<>> /\ sel_call[1] = "StatisticalAnalysis.calculate_all_velocities") =>
          \A r \in sel_value.value : IsVelocity(r.velocity, r.start - r.end, r.days)

(* The velocities of GraphAnalysis.calculate_all_velocities are the ones   *)
(* described, between the first node of a wave and a node reachable from   *)
(* it.                                                                     *)
C22_GraphAnalysisVelocities ==
    (sel_call # <<>> /\ sel_call[1] = "GraphAnalysis.calculate_all_velocities") =>
        \A r \in sel_value.value :
            /\ HasPath(joined_graph, r.start_node, r.end_node)
            /\ InDegree(joined_graph, r.start_node) = 0
            /\ OutDegree(joined_graph, r.end_node) = 0
            /\ IsVelocity(r.velocity,
                          river_kms[r.start_node[1]] - river_kms[r.end_node[1]], r.days)

----------------------------------------------------------------------------
(* the series of gauge g rises strictly up to index p and does not rise    *)
(* after it, for at least delta days on either side                        *)
RisesThenFalls(x, p) ==
    /\ p - 1 >= delta
    /\ Len(x) - p >= delta
    /\ \A k \in 1..(p - 1) : x[k] < x[k + 1]
    /\ \A k \in p..(Len(x) - 1) : x[k] >= x[k + 1]

(* C23: in a maximal run of consecutive equal levels at most one index is  *)
(* flagged, the left-most of the run; in a series that rises strictly for  *)
(* at least delta days and then does not rise for at least delta days the  *)
(* only peak is the first day at which the ascent ends.                    *)
C23_PlateauLeftEdge ==
    \A g \in UsedGauges :
        (pc # "start" /\ pc # "loop" /\ pc # "find_vertices" /\ gauge_ts[g] # <<>>
            /\ Len(gauge_ts[g]) >= delta + 1) =>
        LET x == gauge_ts[g]
            flags == local_peak_values[g]
        IN  /\ \A k \in 1..Len(x) : (flags[k] /\ k > 1) => x[k - 1] # x[k]
            /\ \A j \in 1..Len(x), k \in 1..Len(x) :
                   (j < k /\ flags[j] /\ flags[k]) => \E i \in j..k : x[i] # x[j]
            /\ \A p \in 1..Len(x) :
                   RisesThenFalls(x, p) => \A k \in 1..Len(x) : flags[k] <=> k = p

(* a flat-topped series with radius 2: the peak is the left edge of the    *)
(* plateau                                                                 *)
C23_Witness ==
    /\ pc = "find_edges"
    /\ delta = 2
    /\ \E p \in 1..Len(gauge_ts[1]) :
           /\ RisesThenFalls(gauge_ts[1], p)
           /\ gauge_ts[1][p] = gauge_ts[1][p + 1]
           /\ local_peak_values[1][p]
           /\ ~local_peak_values[1][p + 1]

----------------------------------------------------------------------------
(* C24: every peak stored for a station is classified "red" exactly when   *)
(* its level is >= the level threshold of the station, and "yellow"        *)
(* otherwise.                                                              *)
C24_PeakClass ==
    \A g \in UsedGauges :
        \A d \in DOMAIN vertex_files[g] :
            LET peak == vertex_files[g][d]
            IN  /\ peak[2] \in {"red", "yellow"}
                /\ peak[2] = "red" <=> peak[1] >= level_groups[g]

(* a station with a stored peak at its threshold and a stored peak below   *)
(* it                                                                      *)
C24_Witness ==
    \E g \in UsedGauges :
        /\ \E d \in DOMAIN vertex_files[g] :
              vertex_files[g][d][1] = level_groups[g] /\ vertex_files[g][d][2] = "red"
        /\ \E d \in DOMAIN vertex_files[g] :
              vertex_files[g][d][1] < level_groups[g] /\ vertex_files[g][d][2] = "yellow"

----------------------------------------------------------------------------
(* Yearly wave lists.  The node dates of these graphs are indices into     *)
(* Calendar, which is in chronological order; the date strings are         *)
(* sequences of characters.                                                *)

Ymd(y, m, d) == [year |-> y, month |-> m, day |-> d]

Calendar ==
    <<Ymd(2018, 11, 29), Ymd(2018, 11, 30), Ymd(2018, 12, 31), Ymd(2019, 1, 1),
      Ymd(2019, 1, 2), Ymd(2019, 2, 1), Ymd(2019, 2, 2), Ymd(2019, 12, 31)>>

Digits == <<"0", "1", "2", "3", "4", "5", "6", "7", "8", "9">>

(* str(n) and the zero-padded two digits of strftime *)
RECURSIVE Str(_)
Str(n) == IF n < 10 THEN <<Digits[n + 1]>> ELSE Str(n \div 10) \o <<Digits[(n % 10) + 1]>>

TwoDigits(n) == <<Digits[(n \div 10) + 1], Digits[(n % 10) + 1]>>

(* '%Y-%m-%d' *)
DateStr(date) == Str(date.year) \o <<"-">> \o TwoDigits(date.month) \o <<"-">> \o TwoDigits(date.day)

(* sub in s, for strings *)
Contains(sub, s) ==
    \E i \in 0..(Len(s) - Len(sub)) : SubSeq(s, i + 1, i + Len(sub)) = sub

(* start_date and end_date of get_flood_waves_yearly *)
YearWindow(year) ==
    IF year = 1876 THEN <<Ymd(year, 1, 1), Ymd(year + 1, 2, 1)>>
    ELSE IF year = 2019 THEN <<Ymd(year - 1, 11, 30), Ymd(year, 12, 31)>>
    ELSE <<Ymd(year - 1, 11, 30), Ymd(year + 1, 2, 1)>>

NotAfter(a, b) ==
    \/ a.year < b.year
    \/ a.year = b.year /\ a.month < b.month
    \/ a.year = b.year /\ a.month = b.month /\ a.day <= b.day

(* Selection.select_time_interval is called by get_flood_waves_yearly and  *)
(* is not part of the sources: the nodes dated outside [start_date,        *)
(* end_date] are dropped, with their edges.                                *)
select_time_interval(G, start_date_, end_date_) ==
    Subgraph(G, {node \in G.nodes : /\ NotAfter(start_date_, Calendar[node[2]])
                                    /\ NotAfter(Calendar[node[2]], end_date_)})

(* a variant of the test that only looks at the year before                *)
cleaned_waves_from_this_year_on(waves, year) ==
    {wave \in waves :
        ~(\E i \in 1..Len(wave) : Contains(Str(year - 1), DateStr(Calendar[wave[i][2]])))}

(* the waves kept: not any(str(year - 1) in node_date) and not             *)
(* all(str(year + 1) in node_date)                                         *)
cleaned_waves(waves, year) ==
    {wave \in waves :
        /\ ~(\E i \in 1..Len(wave) : Contains(Str(year - 1), DateStr(Calendar[wave[i][2]])))
        /\ ~(\A i \in 1..Len(wave) : Contains(Str(year + 1), DateStr(Calendar[wave[i][2]])))}

(* the wave lists get_flood_waves can return on the graph of the window    *)
YearlyWaves(G, year) ==
    LET graph == select_time_interval(G, YearWindow(year)[1], YearWindow(year)[2])
    IN  WaveChoices(graph, AllFinalPairs(graph))

YearlyMaxEdges == 2
YearlyMaxSpan == 2

(* edges from a station to a station downstream of it, the two dates at    *)
(* most YearlyMaxSpan places apart in the calendar and in one of its       *)
(* groups of neighbouring days                                             *)
CalendarGroup(i) == IF i <= 2 THEN 1 ELSE IF i <= 5 THEN 2 ELSE IF i <= 7 THEN 3 ELSE 4

YearlyEdgeCells ==
    {e \in (StationIds \X (1..Len(Calendar))) \X (StationIds \X (1..Len(Calendar))) :
        /\ <<e[1][1], e[2][1]>> \in DownPairs
        /\ CalendarGroup(e[1][2]) = CalendarGroup(e[2][2])
        /\ e[1][2] - e[2][2] <= YearlyMaxSpan
        /\ e[2][2] - e[1][2] <= YearlyMaxSpan}

YearlyGraphs ==
    {[nodes |-> EndpointsOf(E), edges |-> E] : E \in SubsetsUpTo(YearlyEdgeCells, YearlyMaxEdges)}

Years == {2018, 2019}

GetFloodWavesYearly ==
    /\ pc = "done"
    /\ sel_call = <<>>
    /\ \E year \in Years :
          /\ sel_call' = <<"get_flood_waves_yearly", year>>
          /\ flood_waves' \in YearlyWaves(joined_graph, year)
          /\ sel_value' = [status |-> "returned", value |-> cleaned_waves(flood_waves', year)]
    /\ UNCHANGED <<pc, sel_graph, sel_view, final_pairs>>
    /\ UNCHANGED prepVars
    /\ UNCHANGED builderVars

InitYearly == InitJoined(YearlyGraphs)

NextYearly == GetFloodWavesYearly

SpecYearly == InitYearly /\ [][NextYearly]_vars

(* the years of the node dates of a wave *)
WaveYears(wave) == {Calendar[wave[i][2]].year : i \in 1..Len(wave)}

(* C25: a wave found in the window of year y is kept for y exactly when no *)
(* node date is in year y - 1 and not all node dates are in year y + 1; no *)
(* wave is kept in the lists of two different years.                       *)
C25_CleanedYearly ==
    (sel_call # <<>> /\ sel_call[1] = "get_flood_waves_yearly") =>
        LET year == sel_call[2]
        IN  /\ \A wave \in flood_waves :
                   wave \in sel_value.value <=>
                       ((year - 1) \notin WaveYears(wave) /\ WaveYears(wave) # {year + 1})
            /\ \A other \in Years \ {year} :
                   \A waves \in YearlyWaves(joined_graph, other) :
                       cleaned_waves(waves, other) \cap sel_value.value = {}

(* a wave across the turn of the year is kept for 2018, and it is found in *)
(* the window of 2019 as well                                              *)
C25_Witness ==
    /\ sel_call # <<>>
    /\ sel_call[1] = "get_flood_waves_yearly"
    /\ sel_call[2] = 2018
    /\ \E wave \in sel_value.value :
          /\ WaveYears(wave) = {2018, 2019}
          /\ \E waves \in YearlyWaves(joined_graph, 2019) : wave \in waves

----------------------------------------------------------------------------
(* Stations with too few samples on an interval of the run.                *)

GapMaxPulses == 2

(* Level series with a gap: level 1 on at most GapMaxPulses cells, and one *)
(* station whose record starts late or ends early.                         *)
GapDays == {{}} \cup {1..b : b \in 1..(RunMaxDay - 1)} \cup {a..RunMaxDay : a \in 2..RunMaxDay}

GapData ==
    {[g \in StationIds |-> [d \in RunDays |->
          IF g = s /\ d \in M THEN NaN ELSE IF <<g, d>> \in P THEN 1 ELSE 0]] :
        P \in SubsetsUpTo(StationIds \X RunDays, GapMaxPulses), s \in StationIds, M \in GapDays}

(* every station exists throughout, or the last station ends on a day c    *)
GapLife ==
    {[g \in StationIds |-> Throughout]}
    \cup {[g \in StationIds |-> IF g = MetaGauges[NumStations] THEN [start |-> 0, end |-> c]
                                 ELSE Throughout] : c \in 2..(RunMaxDay - 1)}

InitGaps ==
    /\ data \in GapData
    /\ delta \in 1..RunMaxDelta
    /\ life \in GapLife
    /\ InitPrep
    /\ InitBuilder
    /\ InitSelection

SpecGaps == InitGaps /\ [][NextRun]_vars

(* the station has fewer than delta + 1 samples that are not missing on    *)
(* [start_date, end_date]                                                  *)
FewSamples(g) ==
    Cardinality({d \in DOMAIN data[g] :
                    start_date <= d /\ d <= end_date /\ data[g][d] # NaN}) < delta + 1

(* the adjacent pairs of the interval's gauges that g is part of *)
PairsWith(g) == {p \in SeqToSet(AdjacentPairs(gauges)) : p[1] = g \/ p[2] = g}

(* C26: a station with fewer than delta + 1 samples on the interval gets   *)
(* no peak on that interval from find_vertices, no error is raised, and    *)
(* find_edges of that interval lists no edge into or out of the station.   *)
C26_TooFewSamples ==
    /\ pc = "find_edges" =>
          \A g \in SeqToSet(gauges) :
              FewSamples(g) =>
                  \A d \in DOMAIN vertex_files[g] : ~(start_date <= d /\ d <= end_date)
    /\ (pc = "loop" /\ idx >= 1) =>
          \A g \in SeqToSet(gauges) :
              FewSamples(g) => \A p \in PairsWith(g) : EdgesOf(vertex_pairs[p]) = {}

(* find_edges has run on an interval where a station that had peaks before *)
(* has too few samples, next to a station that has enough samples and a    *)
(* peak                                                                    *)
C26_Witness ==
    /\ pc = "loop"
    /\ idx >= 1
    /\ \E g \in SeqToSet(gauges) :
          /\ FewSamples(g)
          /\ found.peaks[g] # {}
          /\ \E p \in PairsWith(g) : \E h \in {p[1], p[2]} \ {g} :
                 ~FewSamples(h) /\ DOMAIN vertex_files[h] # {}

----------------------------------------------------------------------------
(* Configurations: GraphPreparation.__init__ stores start_date and         *)
(* end_date as given, and run reads the existence intervals as they are in *)
(* existing_stations.json.                                                 *)

ConfigMaxPulses == 2

ConfigData ==
    {[g \in StationIds |-> [d \in RunDays |-> IF <<g, d>> \in P THEN 1 ELSE 0]] :
        P \in SubsetsUpTo(StationIds \X RunDays, ConfigMaxPulses)}

(* the period forwards, backwards, or one day *)
ConfigDates == {<<1, RunMaxDay>>, <<RunMaxDay, 1>>, <<RunMaxDay - 1, 2>>}

(* every station exists throughout, or the interval of one station ends    *)
(* before it starts                                                        *)
ConfigLife ==
    {[g \in StationIds |-> Throughout]}
    \cup {[g \in StationIds |-> IF g = s THEN [start |-> c, end |-> c - 2] ELSE Throughout] :
             s \in StationIds, c \in 4..(RunMaxDay - 1)}

InitConfig ==
    /\ data \in ConfigData
    /\ delta \in 1..RunMaxDelta
    /\ life \in ConfigLife
    /\ \E dates \in ConfigDates : start_date = dates[1] /\ end_date = dates[2]
    /\ all_gauges = MetaGauges
    /\ gauges = all_gauges
    /\ backward_dict = [g \in StationIds |-> g % 2]
    /\ forward_dict = [g \in StationIds |-> 1 + (g % 2)]
    /\ cut_dates = <<>>
    /\ idx = 0
    /\ pc = "start"
    /\ vertex_files = [g \in StationIds |-> EmptyDict]
    /\ edge_files = [p \in StationIds \X StationIds |-> EmptyDict]
    /\ vertex_pairs_keys = <<>>
    /\ vertex_pairs = [p \in StationIds \X StationIds |-> EmptyDict]
    /\ gauge_ts = [g \in StationIds |-> <<>>]
    /\ gauge_days = [g \in StationIds |-> <<>>]
    /\ local_peak_values = [g \in StationIds |-> <<>>]
    /\ found = [peaks |-> [g \in StationIds |-> {}],
                edges |-> [p \in StationIds \X StationIds |-> {}]]
    /\ InitBuilder
    /\ InitSelection

SpecConfig == InitConfig /\ [][NextRun]_vars

(* the period ends before it starts, or the interval of a station does *)
InvalidConfiguration ==
    \/ end_date < start_date
    \/ \E g \in UsedGauges : life[g].end < life[g].start

(* C27: a configuration whose period or whose station existence interval   *)
(* ends before it starts is rejected before a peak or edge file is         *)
(* written: the run does not enter its loop over the intervals, and the    *)
(* files are empty.                                                        *)
C27_InvalidConfigurationRejected ==
    InvalidConfiguration =>
        /\ pc \in {"start", "error"} \/ (pc = "loop" /\ idx = 0)
        /\ \A g \in UsedGauges : vertex_files[g] = EmptyDict
        /\ \A p \in UsedPairs : edge_files[p] = EmptyDict

(* the part of C27 about the period: with end_date < start_date the run    *)
(* stops with IndexError at cut_dates[0] and no file has content           *)
C27_BackwardPeriodStops ==
    end_date < start_date =>
        /\ pc \in {"start", "error"} \/ (pc = "loop" /\ idx = 0)
        /\ \A g \in UsedGauges : vertex_files[g] = EmptyDict
        /\ \A p \in UsedPairs : edge_files[p] = EmptyDict

----------------------------------------------------------------------------
(* Termination of GraphBuilder.build_graph.                                *)

(* C28: with at least one pair in vertex_pairs, build_graph raises no      *)
(* error, the pair index of a create_flood_wave call is at most the index  *)
(* of the last pair, and the stack of branches is empty when the next root *)
(* edge is taken.                                                          *)
C28_BuildGraphNoError ==
    Len(vertex_pairs_keys) >= 1 =>
        /\ pc # "error"
        /\ pc = "create_flood_wave" => call[2] <= Len(vertex_pairs_keys) - 1
        /\ pc = "root" => branches = <<>>

(* the same with two pairs or more *)
C28_BuildGraphOfTwoPairs ==
    Len(vertex_pairs_keys) >= 2 =>
        /\ pc # "error"
        /\ pc = "create_flood_wave" => call[2] <= Len(vertex_pairs_keys) - 1
        /\ pc = "root" => branches = <<>>

----------------------------------------------------------------------------
(* The expanded extraction on the graph the pipeline builds.               *)

NextExtract == Next \/ GetFloodWavesWithoutEquivalence

SpecExtract == Init /\ [][NextExtract]_vars

(* C29: on the built graph the list of a source-sink pair holds every      *)
(* directed path from the source to the sink, and the directed paths       *)
(* between two nodes have the same number of edges.                        *)
C29_ExpandedHoldsEveryPath ==
    (sel_call # <<>> /\ sel_call[1] = "get_flood_waves_without_equivalence") =>
        /\ \A p \in final_pairs :
               DirectedPaths(joined_graph, p[1], p[2]) # {} =>
                   DirectedPaths(joined_graph, p[1], p[2]) \in flood_waves
        /\ \A s \in joined_graph.nodes, t \in joined_graph.nodes :
               \A q1 \in DirectedPaths(joined_graph, s, t), q2 \in DirectedPaths(joined_graph, s, t) :
                   Len(q1) = Len(q2)

(* the part of C29 that holds: every path of a list is a directed path     *)
(* from the source to the sink of its pair                                 *)
C29_ExpandedWithinPaths ==
    (sel_call # <<>> /\ sel_call[1] = "get_flood_waves_without_equivalence") =>
        \A paths \in flood_waves :
            \E p \in final_pairs : paths \subseteq DirectedPaths(joined_graph, p[1], p[2])

----------------------------------------------------------------------------
(* The pipeline with the backward tolerance 0 at every station, as         *)
(* get_graph_run.main sets it (alpha = 0), followed by a query.            *)

(* every station exists throughout, or the middle station ends on a day c  *)
ForwardLife ==
    {[g \in StationIds |-> Throughout]}
    \cup {[g \in StationIds |-> IF g = MetaGauges[2] THEN [start |-> 0, end |-> c]
                                 ELSE Throughout] : c \in 2..(RunMaxDay - 1)}

InitForward ==
    /\ data \in RunData
    /\ delta \in 1..RunMaxDelta
    /\ life \in ForwardLife
    /\ backward_dict = [g \in StationIds |-> 0]
    /\ forward_dict = [g \in StationIds |-> 1 + (g % 2)]
    /\ start_date = 1
    /\ end_date = RunMaxDay
    /\ all_gauges = MetaGauges
    /\ gauges = all_gauges
    /\ cut_dates = <<>>
    /\ idx = 0
    /\ pc = "start"
    /\ vertex_files = [g \in StationIds |-> EmptyDict]
    /\ edge_files = [p \in StationIds \X StationIds |-> EmptyDict]
    /\ vertex_pairs_keys = <<>>
    /\ vertex_pairs = [p \in StationIds \X StationIds |-> EmptyDict]
    /\ gauge_ts = [g \in StationIds |-> <<>>]
    /\ gauge_days = [g \in StationIds |-> <<>>]
    /\ local_peak_values = [g \in StationIds |-> <<>>]
    /\ found = [peaks |-> [g \in StationIds |-> {}],
                edges |-> [p \in StationIds \X StationIds |-> {}]]
    /\ InitBuilder
    /\ InitSelection

NextForward == Next \/ GetFloodWaves \/ PropagationTime

SpecForward == InitForward /\ [][NextForward]_vars

(* the date of the head of an edge is not before the date of its tail *)
ForwardEdges(E) == \A e \in E : e[2][2] >= e[1][2]

(* C30: with the backward tolerance 0 at every station every edge leads to *)
(* the same or a later date, the node dates do not decrease along a flood  *)
(* wave, and no day difference of propagation_time is negative.            *)
C30_ForwardInTime ==
    (\A g \in UsedGauges : backward_dict[g] = 0) =>
        /\ \A p \in UsedPairs : \A e \in EdgesOf(edge_files[p]) : e[2] >= e[1]
        /\ ForwardEdges(tree_g.edges)
        /\ ForwardEdges(joined_graph.edges)
        /\ (sel_call # <<>> /\ sel_call[1] = "get_flood_waves") =>
              \A wave \in flood_waves :
                  \A i \in 1..(Len(wave) - 1) : wave[i + 1][2] >= wave[i][2]
        /\ (sel_call # <<>> /\ sel_call[1] = "propagation_time") =>
              /\ \A se \in PropPairs(joined_graph, sel_call[2], sel_call[3]) :
                     se[2][2] - se[1][2] >= 0
              /\ sel_value.value[1] >= 0

(* propagation_time has returned a positive average on a built graph in    *)
(* which a wave of three nodes reaches a later date                        *)
C30_Witness ==
    /\ sel_call # <<>>
    /\ sel_call[1] = "propagation_time"
    /\ sel_value.value[1] > 0
    /\ \E e1 \in joined_graph.edges, e2 \in joined_graph.edges :
          e1[2] = e2[1] /\ e2[2][2] > e1[1][2]

====
